---------------------------- MODULE Spec2Model ----------------------------
(* A model of mouse-tool (src/main.c): the SGR mouse-report decoder        *)
(* read_sgr_event_timeout / parse_sgr, the capture loop of main, and the   *)
(* multiclick detector handle_click_mode.                                  *)
(*                                                                         *)
(* Bytes are one-element strings; "ESC", "CR", "LF" and "TAB" stand for    *)
(* the bytes 0x1b, '\r', '\n' and '\t'.  Time is the monotonic clock in    *)
(* ticks of a quarter of a second.                                         *)
EXTENDS Integers, Sequences, FiniteSets, TLC

(***************************************************************************)
(* Program constants                                                       *)
(***************************************************************************)
SGR_BUF == 128
MAX_EVENTS == 65536
\* MULTICLICK_MAX_GAP is 0.5 s: two clock ticks of a quarter of a second.
MULTICLICK_MAX_GAP == 2
MULTICLICK_RADIUS == 3
EVT_PRESS == 1
EVT_MOTION == 2
EVT_RELEASE == 3
OUT_CSV == 0
OUT_JSON == 1
OUT_PRETTY == 2
OUT_JSONL == 3

\* C int is 32 bits wide, long is 64 bits wide, kept as four 16-bit limbs.
INT_MAX == 2147483647
LimbBase == 256 * 256

(***************************************************************************)
(* Bounds of the model                                                     *)
(***************************************************************************)
\* fragments of terminal input delivered in one run of the decoder scenario
MaxFragsDecode == 2
\* fragments delivered in one run of the multiclick scenario
MaxFragsClick == 3
\* fragments delivered in one run of the capture-loop scenario
MaxFragsStream == 3
\* fragments delivered in one run of the record scenario
MaxFragsRecord == 3
\* fragments delivered in one run of the full-buffer scenario
MaxFragsFlood == 2
\* presses the flood holds beyond the capacity of the record buffer
FloodExcess == 2
\* the clock stops advancing at this tick
MaxTime == 4
\* largest -c N / -n N drawn
MaxN == 3
MaxSignals == 2
MaxFragsRun == 2
\* fragments delivered to a capture whose history buffer must grow, and the
\* presses its burst holds beyond the first allocation
MaxFragsGrow == 2
\* fragments delivered to a recording that is played back
MaxFragsPlay == 3
GrowExcess == 2

(***************************************************************************)
(* strtol(s, &end, 10) and the (int) cast of parse_sgr                     *)
(***************************************************************************)
Digit == {"0", "1", "2", "3", "4", "5", "6", "7", "8", "9"}
Space == {" ", "TAB", "LF", "CR"}

DigitVal(c) ==
  CASE c = "0" -> 0 [] c = "1" -> 1 [] c = "2" -> 2 [] c = "3" -> 3
    [] c = "4" -> 4 [] c = "5" -> 5 [] c = "6" -> 6 [] c = "7" -> 7
    [] c = "8" -> 8 [] c = "9" -> 9

\* The least element of a non-empty set of indices
Least(S) == CHOOSE k \in S : \A j \in S : k <= j

\* The first index in i..e-1 at which s does not hold a byte of set B, e when
\* there is none: where a scan over the bytes of B stops.
ScanPast(s, i, e, B) ==
  LET S == {k \in i..(e - 1) : s[k] \notin B}
  IN  IF S = {} THEN (IF e < i THEN i ELSE e) ELSE Least(S)

\* strtol skips leading white space
SkipSpace(s, i) == ScanPast(s, i, Len(s) + 1, Space)

\* the end of the run of digits that starts at i
DigitsEnd(s, i) == ScanPast(s, i, Len(s) + 1, Digit)

\* One step of the accumulation acc*10 + d on a 64-bit magnitude held as
\* limbs <<l0, l1, l2, l3>> (least significant first); over records a carry
\* out of the top limb.
MulAdd(a, d) ==
  LET t0 == a.l[1] * 10 + d
      t1 == a.l[2] * 10 + (t0 \div LimbBase)
      t2 == a.l[3] * 10 + (t1 \div LimbBase)
      t3 == a.l[4] * 10 + (t2 \div LimbBase)
  IN  [l |-> <<t0 % LimbBase, t1 % LimbBase, t2 % LimbBase, t3 % LimbBase>>,
       over |-> a.over \/ (t3 \div LimbBase) > 0]

\* leading zeros of the digits s[i..e-1] leave the value unchanged
SkipZeros(s, i, e) == ScanPast(s, i, e, {"0"})

RECURSIVE Accumulate(_, _, _)
\* the magnitude of the digits s[i..e-1]
Accumulate(s, i, e) ==
  IF e <= i THEN [l |-> <<0, 0, 0, 0>>, over |-> FALSE]
  ELSE MulAdd(Accumulate(s, i, e - 1), DigitVal(s[e - 1]))

\* The low 32 bits of a limb magnitude as a signed C int.
LowInt(l) ==
  IF l[2] >= 32768 THEN (l[2] - LimbBase) * LimbBase + l[1]
  ELSE l[2] * LimbBase + l[1]

\* Two's-complement negation of the low 32 bits.
NegLow(l) ==
  IF l[1] = 0 /\ l[2] = 0 THEN <<0, 0>>
  ELSE IF l[1] = 0 THEN <<0, LimbBase - l[2]>>
  ELSE <<LimbBase - l[1], LimbBase - 1 - l[2]>>

\* strtol on the NUL-terminated text s: conv is end != s, erange is
\* errno == ERANGE, int is the value after the (int) cast.
strtol(s) ==
  LET i == SkipSpace(s, 1)
      neg == i <= Len(s) /\ s[i] = "-"
      j == IF i <= Len(s) /\ s[i] \in {"-", "+"} THEN i + 1 ELSE i
      e == DigitsEnd(s, j)
      z == SkipZeros(s, j, e)
      \* more than 20 significant digits exceed 2^64
      a == IF e - z > 20 THEN [l |-> <<0, 0, 0, 0>>, over |-> TRUE]
           ELSE Accumulate(s, z, e)
      \* LONG_MAX is 2^63 - 1, LONG_MIN is -2^63
      big == a.l[4] >= 32768
      minlong == a.l[4] = 32768 /\ a.l[3] = 0 /\ a.l[2] = 0 /\ a.l[1] = 0
  IN  [conv |-> e > j,
       erange |-> a.over \/ (big /\ ~(neg /\ minlong)),
       int |-> IF neg THEN LowInt(NegLow(a.l)) ELSE LowInt(a.l)]

(***************************************************************************)
(* parse_sgr and the classification of read_sgr_event_timeout              *)
(***************************************************************************)
\* strchr: the first index >= i of s holding c, 0 when there is none.
strchr(s, c, i) ==
  LET S == {k \in i..Len(s) : s[k] = c}
  IN  IF S = {} THEN 0 ELSE Least(S)

NoParse == [ok |-> FALSE, cb |-> 0, cx |-> 0, cy |-> 0, termch |-> "NUL"]

\* parse_sgr(buf, len, ...) with len = Len(buf).  tmp is buf without its
\* first and last byte; the fields are cut at the first two semicolons.
parse_sgr(b) ==
  IF Len(b) < 4 \/ b[1] # "<" \/ Len(b) >= SGR_BUF THEN NoParse
  ELSE
    LET tmp == SubSeq(b, 2, Len(b) - 1)
        i1 == strchr(tmp, ";", 1)
        i2 == IF i1 = 0 THEN 0 ELSE strchr(tmp, ";", i1 + 1)
    IN  IF i1 = 0 \/ i2 = 0 THEN NoParse
        ELSE
          LET vcb == strtol(SubSeq(tmp, 1, i1 - 1))
              vcx == strtol(SubSeq(tmp, i1 + 1, i2 - 1))
              vcy == strtol(SubSeq(tmp, i2 + 1, Len(tmp)))
          IN  IF vcb.erange \/ ~vcb.conv THEN NoParse
              ELSE IF vcx.erange \/ ~vcx.conv THEN NoParse
              ELSE IF vcy.erange \/ ~vcy.conv THEN NoParse
              ELSE [ok |-> TRUE, cb |-> vcb.int, cx |-> vcx.int,
                    cy |-> vcy.int, termch |-> b[Len(b)]]

\* The elements of the two 128-byte arrays that parse_sgr(buf, len, ...) reads
\* or writes, as indexes from 0, with len = Len(b): buf[0] in the test once
\* len >= 4; past the test, memcpy reads buf[1 .. len-2] into tmp[0 .. len-3],
\* tmp[len-2] takes the NUL that strchr and strtol stop at, and buf[len-1] is
\* the terminator.
parse_sgr_touches(b) ==
  IF Len(b) < 4 THEN [buf |-> {}, tmp |-> {}]
  ELSE IF b[1] # "<" \/ Len(b) >= SGR_BUF THEN [buf |-> {0}, tmp |-> {}]
  ELSE [buf |-> 0..(Len(b) - 1), tmp |-> 0..(Len(b) - 2)]

\* The condition of the press/motion split, cb < 32.
IsPressCode(cb) == cb < 32

\* ev->type as set at the end of read_sgr_event_timeout.
Classify(cb, termch) ==
  IF termch = "M" THEN (IF IsPressCode(cb) THEN EVT_PRESS ELSE EVT_MOTION)
  ELSE EVT_RELEASE

NoEv == [x |-> 0, y |-> 0, button |-> 0, type |-> 0, t |-> 0]

\* The event filled in from a successful parse at clock value t.
MkEvent(p, t) ==
  [x |-> p.cx, y |-> p.cy, button |-> p.cb, type |-> Classify(p.cb, p.termch),
   t |-> t]

\* The accumulation loop with the condition len < sizeof(buf).
BodyStops_Off(b, c) == c \in {"M", "m"} \/ ~(Len(b) < SGR_BUF)

\* The accumulation loop stops once c is stored as the last byte of b: c is
\* a terminator, or the loop condition len + 1 < sizeof(buf) fails.
BodyStops(b, c) == c \in {"M", "m"} \/ ~(Len(b) + 1 < SGR_BUF)

type_str(t) ==
  IF t = EVT_PRESS THEN "press" ELSE IF t = EVT_RELEASE THEN "release"
  ELSE "motion"

(***************************************************************************)
(* The proximity test of the multiclick loop                               *)
(***************************************************************************)
\* a - b leaves the range of int
SubOverflows(a, b) ==
  \/ b < 0 /\ a > INT_MAX + b
  \/ b > 0 /\ a < (-INT_MAX - 1) + b

\* d * d leaves the range of int (46340 * 46340 <= INT_MAX < 46341 * 46341)
SquareOverflows(d) == d > 46340 \/ d < -46340

\* The comparison dx*dx + dy*dy <= R*R on values that do not overflow.
RadiusTest(dx, dy) ==
  dx * dx + dy * dy <= MULTICLICK_RADIUS * MULTICLICK_RADIUS

\* The outcomes of the test "dx*dx + dy*dy <= R*R" with dx = fx - ex and
\* dy = fy - ey in int arithmetic.  Signed overflow is undefined behaviour:
\* then either outcome can be produced.
WithinRadius(fx, fy, ex, ey) ==
  IF SubOverflows(fx, ex) \/ SubOverflows(fy, ey) THEN BOOLEAN
  ELSE LET dx == fx - ex
           dy == fy - ey
       IN  IF SquareOverflows(dx) \/ SquareOverflows(dy) THEN BOOLEAN
           ELSE IF dx * dx > INT_MAX - dy * dy THEN BOOLEAN
           ELSE {RadiusTest(dx, dy)}

(***************************************************************************)
(* Output records                                                          *)
(***************************************************************************)
\* A count of all the events, whatever their type.
CountPress_Mut(types, n) == n

RECURSIVE CountRange(_, _, _)
\* The presses among types[lo..hi], summed by halves so that the depth of
\* the evaluation stays logarithmic in the length of a full record buffer.
CountRange(types, lo, hi) ==
  IF lo > hi THEN 0
  ELSE IF lo = hi THEN (IF types[lo] = EVT_PRESS THEN 1 ELSE 0)
  ELSE CountRange(types, lo, (lo + hi) \div 2)
         + CountRange(types, ((lo + hi) \div 2) + 1, hi)

\* The press_count loop over the first n event types of a sequence.
CountPress(types, n) == CountRange(types, 1, n)

\* One element of "events": the fields print as %d, the type by type_str.
JsonEvent(e, dt) ==
  [x |-> e.x, y |-> e.y, button |-> e.button, type |-> type_str(e.type),
   dt |-> dt]

\* print_json_history: o is the outs array, each element [ev, dt];
\* started_at is the clock value the caller formatted.
print_json_history(o, pretty, mode, started, duration) ==
  [kind |-> "json", pretty |-> pretty, mode |-> mode, started_at |-> started,
   duration |-> duration,
   outputs |-> CountPress([i \in 1..Len(o) |-> o[i].ev.type], Len(o)),
   events |-> [i \in 1..Len(o) |-> JsonEvent(o[i].ev, o[i].dt)]]

\* print_json_from_events: dt is recomputed from the timestamps.
print_json_from_events(es, pretty, mode, started, duration) ==
  [kind |-> "json", pretty |-> pretty, mode |-> mode, started_at |-> started,
   duration |-> duration,
   outputs |-> CountPress([i \in 1..Len(es) |-> es[i].type], Len(es)),
   events |-> [i \in 1..Len(es) |->
                 JsonEvent(es[i], IF i > 1 THEN es[i].t - es[i - 1].t ELSE 0)]]

print_json_line(e, dt) ==
  [kind |-> "jsonl", x |-> e.x, y |-> e.y, button |-> e.button,
   type |-> type_str(e.type), dt |-> dt]

\* The line "%d,%d,%d\n" of the CSV format.
CsvLine(e) == [kind |-> "csv", x |-> e.x, y |-> e.y, button |-> e.button]

(***************************************************************************)
(* Terminal input: fragments of bytes the terminal delivers in one piece   *)
(***************************************************************************)
DigitChar(n) ==
  CASE n = 0 -> "0" [] n = 1 -> "1" [] n = 2 -> "2" [] n = 3 -> "3"
    [] n = 4 -> "4" [] n = 5 -> "5" [] n = 6 -> "6" [] n = 7 -> "7"
    [] n = 8 -> "8" [] n = 9 -> "9"

RECURSIVE Dec(_)
\* the decimal text of a natural number
Dec(n) == IF n < 10 THEN <<DigitChar(n)>> ELSE Dec(n \div 10) \o <<DigitChar(n % 10)>>

Fill(c, k) == [i \in 1..k |-> c]

SgrBytes(cb, cx, cy, term) ==
  <<"ESC", "[", "<">> \o cb \o <<";">> \o cx \o <<";">> \o cy \o <<term>>

\* A well-formed report ESC [ < Cb ; Cx ; Cy term written as the texts tb,
\* tx, ty.  fits: each value is in the range of int.
Report(tb, tx, ty, cb, cx, cy, term, fits) ==
  [kind |-> "sgr", bytes |-> SgrBytes(tb, tx, ty, term),
   cb |-> cb, cx |-> cx, cy |-> cy, term |-> term, fits |-> fits]

Wf(cb, cx, cy, term) ==
  Report(Dec(cb), Dec(cx), Dec(cy), cb, cx, cy, term, TRUE)

\* Any other fragment: kind is "bad" (complete body that is not three
\* numbers), "trunc" (body cut before its terminator), "over" (body that
\* fills the scratch buffer without a terminator), "esc" (ESC not followed
\* by [ <), "enter" (CR or LF) or "junk".
Other(kind, bytes) ==
  [kind |-> kind, bytes |-> bytes, cb |-> 0, cx |-> 0, cy |-> 0,
   term |-> "NUL", fits |-> FALSE]

DecodeLib ==
  << Wf(0, 10, 10, "M"), Wf(31, 2, 3, "M"), Wf(32, 11, 10, "M"),
     Wf(0, 10, 10, "m"), Wf(35, 7, 9, "m"),
     \* Cb = 2^32 + 1 does not fit an int
     Report(<<"4", "2", "9", "4", "9", "6", "7", "2", "9", "7">>, Dec(1), Dec(1),
            0, 1, 1, "M", FALSE),
     \* Cb = 1 written with leading zeros, longer than the scratch buffer
     Report(Fill("0", SGR_BUF) \o Dec(1), Dec(2), Dec(3), 1, 2, 3, "M", TRUE),
     Other("bad", <<"ESC", "[", "<", "1", "x", ";", "2", ";", "3", "M">>),
     Other("bad", <<"ESC", "[", "<", "x", ";", "2", ";", "3", "M">>),
     Other("bad", <<"ESC", "[", "<", "1", ";", "2", "M">>),
     Other("bad", <<"ESC", "[", "<", ";", "2", ";", "3", "m">>),
     Other("trunc", <<"ESC", "[", "<", "1", ";", "2">>),
     Other("over", <<"ESC", "[", "<">> \o Fill("x", SGR_BUF - 2)),
     Other("over", <<"ESC", "[", "<", "0", ";", "1", ";">> \o Fill("0", SGR_BUF - 6)),
     Other("esc", <<"ESC">>),
     Other("esc", <<"ESC", "[">>),
     Other("esc", <<"ESC", "[", "A">>),
     Other("esc", <<"ESC", "O">>),
     Other("enter", <<"CR">>),
     Other("enter", <<"LF">>),
     Other("junk", <<"x">>) >>

\* Multiclick scenario: presses at the anchor (5,5), at distance 3 and 4
\* from it and 65536 columns away, a release, Enter and a stray byte.
ClickLib ==
  << Wf(0, 5, 5, "M"), Wf(0, 5, 8, "M"), Wf(0, 5, 9, "M"),
     Wf(0, 65541, 5, "M"), Wf(0, 5, 5, "m"),
     Other("enter", <<"CR">>), Other("junk", <<"x">>) >>

\* Capture-loop scenario: a press, a motion, a release, a burst of two
\* presses delivered together, and Enter.
StreamLib ==
  << Wf(0, 5, 5, "M"), Wf(32, 6, 5, "M"), Wf(0, 5, 5, "m"),
     [Wf(0, 2, 2, "M") EXCEPT !.kind = "burst",
         !.bytes = SgrBytes(Dec(0), Dec(2), Dec(2), "M")
                     \o SgrBytes(Dec(2), Dec(3), Dec(3), "M")],
     Other("enter", <<"CR">>) >>

\* Whole-run scenario: a press, a second press next to it, a motion and
\* Enter.
RunLib ==
  << Wf(0, 5, 5, "M"), Wf(0, 6, 5, "M"), Wf(32, 6, 6, "M"),
     Other("enter", <<"CR">>) >>

\* Record scenario: a press, a motion, a release, a stray byte, an ESC with
\* nothing after it, and Enter.
RecordLib ==
  << Wf(0, 5, 5, "M"), Wf(32, 6, 5, "M"), Wf(0, 5, 5, "m"),
     Other("junk", <<"x">>), Other("esc", <<"ESC">>),
     Other("enter", <<"CR">>) >>

\* Playback scenario: a press, a press reported at column 0 and row 0, a
\* release, and Enter.
PlayLib ==
  << Wf(0, 5, 5, "M"), Wf(0, 0, 0, "M"), Wf(0, 5, 5, "m"),
     Other("enter", <<"CR">>) >>

\* max_events: (size_t)(record_seconds * 1000.0) + 1024 capped at MAX_EVENTS;
\* a tick is 250 ms.
EventsCapacity(ticks) ==
  IF ticks * 250 + 1024 > MAX_EVENTS THEN MAX_EVENTS ELSE ticks * 250 + 1024

\* Full-buffer scenario: presses at columns 1001, 1002, ... delivered in one
\* piece, FloodExcess more of them than a recording of one tick can hold,
\* and Enter.  Each report is the 12 bytes ESC [ < 0 ; c c c c ; 1 M.
FloodCount == EventsCapacity(1) + FloodExcess

FloodLib ==
  << [Wf(0, 1001, 1, "M") EXCEPT !.kind = "burst",
        !.bytes = [k \in 1..(12 * FloodCount) |->
                     SgrBytes(Dec(0), Dec(1000 + ((k - 1) \div 12) + 1), Dec(1),
                              "M")[((k - 1) % 12) + 1]]],
     Other("enter", <<"CR">>) >>

\* The first capacity of the history buffer of the JSON modes:
\* "newcap = outs_cap ? outs_cap * 2 : 256"
OutsFirstCap == 256

\* The bytes of n presses at columns 1001, 1002, ... in one piece
PressBurst(n) ==
  [k \in 1..(12 * n) |->
     SgrBytes(Dec(0), Dec(1000 + ((k - 1) \div 12) + 1), Dec(1), "M")[
       ((k - 1) % 12) + 1]]

\* Growing-buffer scenario: GrowExcess more presses than the first
\* allocation of the history buffer holds, delivered in one piece, and
\* Enter.
GrowCount == OutsFirstCap + GrowExcess

GrowLib ==
  << [Wf(0, 1001, 1, "M") EXCEPT !.kind = "burst",
                                 !.bytes = PressBurst(GrowCount)],
     Other("enter", <<"CR">>) >>

(***************************************************************************)
(* State                                                                   *)
(***************************************************************************)
VARIABLES
  cfg,            \* the options of the run, fixed by getopt_long
  lib,            \* which fragment library the terminal draws from
  pc,             \* main: "loop", "first", "follow", "fin", "done";
                  \* playback_events_color: "play" (the loop test),
                  \* "play_pause" (about to pause before a dot),
                  \* "play_sleep" (in that pause), "play_draw" (about to
                  \* write the dot), "play_end" (the loop is left),
                  \* "play_trail" (about to make the trailing pause),
                  \* "play_tail" (in the trailing pause)
  rpc,            \* read_sgr_event_timeout: "idle", "call" (top of for(;;)),
                  \* "select", "esc", "br", "body" (the four blocking
                  \* calls), "ret" (returned to the caller)
  buf,            \* char buf[SGR_BUF], the bytes stored so far
  tmo,            \* timeout_sec in ticks, -1 for none
  selStart,       \* the clock when the pending select was entered
  rv,             \* the return value of read_sgr_event_timeout
  ev,             \* the caller's event_t the call fills in
  queue,          \* unread bytes in the tty input queue
  nfrag,          \* fragments delivered so far
  now,            \* CLOCK_MONOTONIC in ticks
  got_sig,        \* volatile sig_atomic_t got_sig (as a flag)
  eintr,          \* a signal arrived inside the pending blocking call
  eof,            \* the tty has hung up: read returns 0
  first, last,    \* handle_click_mode: the anchor and the last accepted press
  count,          \* handle_click_mode: presses accepted
  members,        \* history: the presses accepted, in order
  started_at,     \* main, click branch: the clock when started_at is
                  \* filled in before handle_click_mode (the clock does not
                  \* advance before the first wait); 0 in the other modes,
                  \* which take it after the loop
  outputs,        \* main: presses counted
  outs,           \* main: the out_event_t array of the JSON modes
  outs_cap,       \* main: the allocated length of outs
  events,         \* main: the record buffer (ev_count is its length)
  max_events,     \* main: capacity of the record buffer
  rec_start,      \* main: the clock at the start of recording
  last_emit_time, \* main: the clock at the last event handled, 0 if none
  played,         \* playback_events_color: the loop index i
  received,       \* history: the events the capture loop of record mode got
                  \* from read_sgr_event_timeout, in order
  emitT,          \* history: the clock when the capture loop handled each
                  \* event it wrote as JSONL or kept for a JSON document
  out,            \* what has been written to the output sink, in order
  marks,          \* the marks drawn by draw_mark, in order
  exit,           \* the process result, -1 while running
  cleanup_done,   \* volatile sig_atomic_t cleanup_done
  out_closed,     \* out_fp has been closed by restore_terminal
  term,           \* what has been done to the terminal and the descriptors,
                  \* in order: [op, fd] with fd the descriptor written to;
                  \* a dot of the playback also has its position at, and
                  \* a pause of the playback (op "pause") its length d
  tty_open,       \* ttyfd is the descriptor of /dev/tty (not STDIN_FILENO)
  rcalls,         \* history: calls of restore_terminal
  sigs,           \* history: signals handled by sighandler
  cur, prev,      \* history: index in the library of the fragment delivered
                  \* last and of the one before it, 0 for none
  arrPc,          \* history: rpc when the last fragment arrived
  fin             \* history: the step just taken read the last byte of cur

cfgVars == <<cfg, lib>>
decVars == <<rpc, buf, tmo, selStart, rv, ev>>
envVars == <<queue, nfrag, now, got_sig, eintr, eof>>
clickVars == <<first, last, count, members, started_at>>
mainVars == <<outputs, outs, outs_cap, events, max_events, rec_start,
             last_emit_time, played, received, emitT>>
sinkVars == <<out, marks, exit, cleanup_done, out_closed, term, tty_open,
             rcalls, sigs>>
histVars == <<cur, prev, arrPc>>
vars == <<cfgVars, pc, decVars, envVars, clickVars, mainVars, sinkVars,
          histVars, fin>>

Lib ==
  CASE lib = "decode" -> DecodeLib
    [] lib = "click" -> ClickLib
    [] lib = "stream" -> StreamLib
    [] lib = "record" -> RecordLib
    [] lib = "flood" -> FloodLib
    [] lib = "grow" -> GrowLib
    [] lib = "play" -> PlayLib
    [] lib = "run" -> RunLib

MaxFrags ==
  CASE lib = "decode" -> MaxFragsDecode
    [] lib = "click" -> MaxFragsClick
    [] lib = "stream" -> MaxFragsStream
    [] lib = "record" -> MaxFragsRecord
    [] lib = "flood" -> MaxFragsFlood
    [] lib = "grow" -> MaxFragsGrow
    [] lib = "play" -> MaxFragsPlay
    [] lib = "run" -> MaxFragsRun

\* The program is inside a blocking call that has nothing to return yet.
Blocked ==
  /\ rpc \in {"select", "esc", "br", "body"}
  /\ queue = <<>>
  /\ ~eof
  /\ ~eintr

\* The select of the scan state has run out of time.
TimeoutDue == rpc = "select" /\ tmo >= 0 /\ now - selStart >= tmo

(***************************************************************************)
(* The terminal, the clock and signals                                     *)
(***************************************************************************)
\* The terminal delivers fragment i of the library.  The history of the
\* fragments is kept in the decoder scenario.
Arrive(i) ==
  /\ Blocked
  /\ nfrag < MaxFrags
  /\ queue' = Lib[i].bytes
  /\ nfrag' = nfrag + 1
  /\ IF lib = "decode"
       THEN prev' = cur /\ cur' = i /\ arrPc' = rpc
       ELSE UNCHANGED histVars
  /\ fin' = FALSE
  /\ UNCHANGED <<cfgVars, pc, decVars, now, got_sig, eintr, eof, clickVars,
                 mainVars, sinkVars>>

\* Time passes while the program waits; a select with a timeout is not
\* overslept.
Tick ==
  /\ Blocked
  /\ ~TimeoutDue
  /\ now < MaxTime
  /\ now' = now + 1
  /\ fin' = FALSE
  /\ UNCHANGED <<cfgVars, pc, decVars, queue, nfrag, got_sig, eintr, eof,
                 clickVars, mainVars, sinkVars, histVars>>

\* An entry of term: term_write and tcsetattr use ttyfd while it is the
\* descriptor of /dev/tty, and standard output (standard input) otherwise.
TermOp(op) == [op |-> op, fd |-> IF tty_open THEN "tty" ELSE "stdout"]

\* minimal_signal_restore, the one write of sighandler: show the cursor,
\* leave the alternate screen, disable mouse reporting.
minimal_signal_restore ==
  /\ term' = Append(term, TermOp("sig_restore"))
  /\ sigs' = sigs + 1

\* sighandler for SIGINT, SIGTERM, SIGHUP, SIGQUIT (installed without
\* SA_RESTART): sets got_sig; a blocking call it interrupts fails with EINTR.
\* A signal that arrives while unread bytes are being decoded is first seen
\* at the next of these points, so it is delivered there.
Signal ==
  /\ ~got_sig
  /\ exit = -1
  /\ pc \notin {"args", "setup"}
  /\ rpc \in {"idle", "call", "ret"} \/ Blocked
  /\ got_sig' = TRUE
  /\ eintr' = Blocked
  /\ minimal_signal_restore
  /\ fin' = FALSE
  /\ UNCHANGED <<cfgVars, pc, decVars, queue, nfrag, now, eof, clickVars,
                 mainVars, out, marks, exit, cleanup_done, out_closed,
                 tty_open, rcalls, histVars>>

\* A further signal while got_sig is already set: the handler runs again, and
\* a blocking call it interrupts fails with EINTR.
SignalAgain ==
  /\ got_sig
  /\ sigs < MaxSignals
  /\ pc \notin {"args", "setup", "exited"}
  /\ rpc \in {"idle", "call", "ret"} \/ Blocked
  /\ eintr' = (eintr \/ Blocked)
  /\ minimal_signal_restore
  /\ fin' = FALSE
  /\ UNCHANGED <<cfgVars, pc, decVars, queue, nfrag, now, got_sig, eof,
                 clickVars, mainVars, out, marks, exit, cleanup_done,
                 out_closed, tty_open, rcalls, histVars>>

\* The terminal hangs up: from now on read returns 0 once the queue is empty.
Hangup ==
  /\ Blocked
  /\ eof' = TRUE
  /\ fin' = FALSE
  /\ UNCHANGED <<cfgVars, pc, decVars, queue, nfrag, now, got_sig, eintr,
                 clickVars, mainVars, sinkVars, histVars>>

(***************************************************************************)
(* read_sgr_event_timeout                                                  *)
(***************************************************************************)
\* return r, with *ev as e
Return(r, e) == rpc' = "ret" /\ rv' = r /\ ev' = e /\ buf' = <<>>

\* continue: back to the top of for(;;)
Continue == rpc' = "call" /\ buf' = <<>> /\ UNCHANGED <<rv, ev>>

\* read(ttyfd, &c, 1) returning the byte at the head of the queue
TakeByte ==
  /\ queue # <<>>
  /\ queue' = Tail(queue)
  /\ fin' = (lib = "decode" /\ Tail(queue) = <<>>)
  /\ UNCHANGED <<cfgVars, pc, tmo, selStart, nfrag, now, got_sig, eintr, eof,
                 clickVars, mainVars, sinkVars, histVars>>

\* Top of for(;;): FD_SET and the call of select, which re-arms the timeout.
SelectEnter ==
  /\ rpc = "call"
  /\ rpc' = "select"
  /\ selStart' = now
  /\ fin' = FALSE
  /\ UNCHANGED <<cfgVars, pc, buf, tmo, rv, ev, envVars, clickVars, mainVars,
                 sinkVars, histVars>>

\* select returned 0
SelectTimeout ==
  /\ rpc = "select"
  /\ queue = <<>> /\ ~eof /\ ~eintr
  /\ TimeoutDue
  /\ Return(0, ev)
  /\ fin' = FALSE
  /\ UNCHANGED <<cfgVars, pc, tmo, selStart, envVars, clickVars, mainVars,
                 sinkVars, histVars>>

\* The first byte of an iteration: Enter, ESC, or a byte that is dropped.
ScanByte ==
  /\ rpc = "select"
  /\ TakeByte
  /\ LET c == Head(queue)
     IN  IF c = "CR" \/ c = "LF" THEN Return(2, ev)
         ELSE IF c # "ESC" THEN Continue
         ELSE rpc' = "esc" /\ UNCHANGED <<buf, rv, ev>>

\* The byte after ESC
EscByte ==
  /\ rpc = "esc"
  /\ TakeByte
  /\ IF Head(queue) # "[" THEN Continue
     ELSE rpc' = "br" /\ UNCHANGED <<buf, rv, ev>>

\* The byte after ESC [
BracketByte ==
  /\ rpc = "br"
  /\ TakeByte
  /\ IF Head(queue) # "<" THEN Continue
     ELSE rpc' = "body" /\ buf' = <<"<">> /\ UNCHANGED <<rv, ev>>

\* One pass of the accumulation loop and, when it stops, parse_sgr and the
\* classification.
BodyByte ==
  /\ rpc = "body"
  /\ TakeByte
  /\ LET c == Head(queue)
         nb == Append(buf, c)
         p == parse_sgr(nb)
     IN  IF ~BodyStops(nb, c)
           THEN rpc' = "body" /\ buf' = nb /\ UNCHANGED <<rv, ev>>
         ELSE IF ~p.ok THEN Continue
         ELSE Return(1, MkEvent(p, now))

\* read returned 0 at end of input (select reports the descriptor readable)
ReadEof ==
  /\ rpc \in {"select", "esc", "br", "body"}
  /\ queue = <<>> /\ eof /\ ~eintr
  /\ Return(-1, ev)
  /\ fin' = FALSE
  /\ UNCHANGED <<cfgVars, pc, tmo, selStart, envVars, clickVars, mainVars,
                 sinkVars, histVars>>

\* select or read failed with EINTR after sighandler ran: got_sig is set
Interrupted ==
  /\ eintr
  /\ eintr' = FALSE
  /\ Return(-1, ev)
  /\ fin' = FALSE
  /\ UNCHANGED <<cfgVars, pc, tmo, selStart, queue, nfrag, now, got_sig, eof,
                 clickVars, mainVars, sinkVars, histVars>>

(***************************************************************************)
(* restore_terminal, draw_mark and the writes to the output sink           *)
(***************************************************************************)
\* restore_terminal: a no-op once cleanup_done is set; otherwise it disables
\* mouse reporting, flushes the unread input (tcflush TCIFLUSH), re-applies
\* the saved attributes, leaves the alternate screen, closes out_fp when -o
\* gave a file and closes the descriptor of /dev/tty when it was opened.
RestoreOps_Mut ==
  <<TermOp("mouse_off"), TermOp("alt_off")>>
    \o (IF cfg.outfile THEN <<TermOp("fclose_out")>> ELSE <<>>)
    \o (IF tty_open THEN <<TermOp("close_tty")>> ELSE <<>>)

\* What restore_terminal does when cleanup_done is not set, in order.
RestoreOps ==
  <<TermOp("mouse_off"), TermOp("tcsetattr_orig"), TermOp("alt_off")>>
    \o (IF cfg.outfile THEN <<TermOp("fclose_out")>> ELSE <<>>)
    \o (IF tty_open THEN <<TermOp("close_tty")>> ELSE <<>>)

Restore_Mut(after) ==
  /\ rcalls' = rcalls + 1
  /\ UNCHANGED sigs
  /\ cleanup_done' = TRUE
  /\ queue' = <<>>
  /\ out_closed' = cfg.outfile
  /\ term' = term \o RestoreOps \o after
  /\ tty_open' = FALSE

\* A call of restore_terminal followed by the terminal writes after; the
\* caller makes next.
Restore(after) ==
  /\ rcalls' = rcalls + 1
  /\ UNCHANGED sigs
  /\ IF cleanup_done
       THEN /\ UNCHANGED <<cleanup_done, out_closed, queue, tty_open>>
            /\ term' = term \o after
       ELSE /\ cleanup_done' = TRUE
            /\ queue' = <<>>
            /\ out_closed' = cfg.outfile
            /\ term' = term \o RestoreOps \o after
            /\ tty_open' = FALSE

restore_terminal == Restore(<<>>)

\* the marks after "if (do_mark && type == EVT_PRESS) draw_mark(x, y)"
MarkIf(cond, e) == IF cond THEN Append(marks, <<e.x, e.y>>) ELSE marks

IsJson(m) == m = OUT_JSON \/ m = OUT_PRETTY

(***************************************************************************)
(* handle_click_mode (option -c N) and its call in main                    *)
(***************************************************************************)
\* return 1 from handle_click_mode; main restores the terminal and returns 1
ClickFail ==
  /\ pc' = "done"
  /\ rpc' = "idle"
  /\ exit' = 1
  /\ restore_terminal
  /\ UNCHANGED <<out, marks>>

\* The record handle_click_mode writes for the press l; calloc may fail in
\* the JSON modes, and then the CSV line is written instead.
ClickRecords(l) ==
  IF cfg.out_mode = OUT_JSONL THEN {print_json_line(l, 0)}
  ELSE IF IsJson(cfg.out_mode)
    THEN {CsvLine(l),
          print_json_history(<<[ev |-> l, dt |-> 0]>>,
                             cfg.out_mode = OUT_PRETTY, "click", started_at,
                             0)}
  ELSE {CsvLine(l)}

\* A success path that emits the anchor instead of the last press.
ClickSuccess_Mut(l) ==
  /\ pc' = "done"
  /\ rpc' = "idle"
  /\ marks' = MarkIf(cfg.do_mark, IF count >= 1 THEN first ELSE l)
  /\ \E r \in ClickRecords(IF count >= 1 THEN first ELSE l) :
       out' = Append(out, r)
  /\ exit' = 0
  /\ restore_terminal

\* Success: mark and emit the press l, then main restores and returns 0
ClickSuccess(l) ==
  /\ pc' = "done"
  /\ rpc' = "idle"
  /\ marks' = MarkIf(cfg.do_mark, l)
  /\ \E r \in ClickRecords(l) : out' = Append(out, r)
  /\ exit' = 0
  /\ restore_terminal

\* wait_for_first_press: the test of while (!got_sig) and the call
ClickFirstCall ==
  /\ pc = "first" /\ rpc = "idle"
  /\ fin' = FALSE
  /\ IF got_sig
       THEN /\ ClickFail
            /\ UNCHANGED <<buf, tmo, selStart, rv, ev>>
       ELSE /\ rpc' = "call"
            /\ tmo' = -1
            /\ UNCHANGED <<pc, buf, selStart, rv, ev, queue, sinkVars>>
  /\ UNCHANGED <<cfgVars, nfrag, now, got_sig, eintr, eof, clickVars, mainVars,
                 histVars>>

\* wait_for_first_press after the call returned r, and what
\* handle_click_mode does with the first press
ClickFirstReturn ==
  /\ pc = "first" /\ rpc = "ret"
  /\ fin' = FALSE
  /\ IF rv = 1 /\ ev.type = EVT_PRESS
       THEN /\ first' = ev
            /\ last' = ev
            /\ members' = <<ev>>
            /\ count' = 1
            /\ UNCHANGED started_at
            /\ IF cfg.click_N > 1
                 THEN /\ pc' = "follow"
                      /\ rpc' = "idle"
                      /\ UNCHANGED <<queue, sinkVars>>
                 ELSE ClickSuccess(ev)
     ELSE IF rv = 2 \/ rv = -1
       THEN ClickFail /\ UNCHANGED clickVars
     ELSE /\ rpc' = "idle"
          /\ UNCHANGED <<pc, queue, sinkVars, clickVars>>
  /\ UNCHANGED <<cfgVars, buf, tmo, selStart, rv, ev, nfrag, now, got_sig,
                 eintr, eof, mainVars, histVars>>

\* The follow-up loop: the test of while (count < N && !got_sig), the call
\* with the gap as timeout, and after the loop "if (count != N) return 1"
ClickFollowCall ==
  /\ pc = "follow" /\ rpc = "idle"
  /\ fin' = FALSE
  /\ IF count < cfg.click_N /\ ~got_sig
       THEN /\ rpc' = "call"
            /\ tmo' = MULTICLICK_MAX_GAP
            /\ UNCHANGED <<pc, queue, sinkVars>>
     ELSE IF count # cfg.click_N
       THEN ClickFail /\ UNCHANGED tmo
     ELSE ClickSuccess(last) /\ UNCHANGED tmo
  /\ UNCHANGED <<cfgVars, buf, selStart, rv, ev, nfrag, now, got_sig, eintr,
                 eof, clickVars, mainVars, histVars>>

\* The follow-up loop after the call returned
ClickFollowReturn ==
  /\ pc = "follow" /\ rpc = "ret"
  /\ fin' = FALSE
  /\ IF rv = 0 \/ rv = -1 \/ rv = 2
       THEN ClickFail /\ UNCHANGED clickVars
     ELSE IF ev.type # EVT_PRESS
       THEN /\ rpc' = "idle"
            /\ UNCHANGED <<pc, queue, sinkVars, clickVars>>
     ELSE \E near \in WithinRadius(first.x, first.y, ev.x, ev.y) :
            IF near
              THEN /\ count' = count + 1
                   /\ last' = ev
                   /\ members' = Append(members, ev)
                   /\ rpc' = "idle"
                   /\ UNCHANGED <<pc, queue, sinkVars, first, started_at>>
              ELSE ClickFail /\ UNCHANGED clickVars
  /\ UNCHANGED <<cfgVars, buf, tmo, selStart, rv, ev, nfrag, now, got_sig,
                 eintr, eof, mainVars, histVars>>

(***************************************************************************)
(* The capture loop of main                                                *)
(***************************************************************************)
RECURSIVE SumRange(_, _, _)
\* The sum of o[lo..hi].dt, taken by halves so that the depth of the
\* evaluation stays logarithmic in the length of the buffer.
SumRange(o, lo, hi) ==
  IF lo > hi THEN 0
  ELSE IF lo = hi THEN o[lo].dt
  ELSE SumRange(o, lo, (lo + hi) \div 2)
         + SumRange(o, ((lo + hi) \div 2) + 1, hi)

\* the loop "duration += outs[i].dt" over the first n elements
SumDt(o, n) == SumRange(o, 1, n)

\* Top of for(;;): the got_sig test, the timeout of record mode, the call
MainCall ==
  /\ pc = "loop" /\ rpc = "idle"
  /\ fin' = FALSE
  /\ IF got_sig THEN pc' = "fin" /\ UNCHANGED <<rpc, tmo>>
     ELSE IF cfg.mode = "record" /\ cfg.record_ticks - (now - rec_start) <= 0
       THEN pc' = "fin" /\ UNCHANGED <<rpc, tmo>>
     ELSE /\ rpc' = "call"
          /\ tmo' = IF cfg.mode = "record"
                      THEN cfg.record_ticks - (now - rec_start) ELSE -1
          /\ UNCHANGED pc
  /\ UNCHANGED <<cfgVars, buf, selStart, rv, ev, envVars, clickVars, mainVars,
                 sinkVars, histVars>>

\* A limit test that lets one press too many through.
LimitReached_Mut(n) ==
  \/ ~cfg.infinite /\ cfg.count_limit = 0 /\ n > 1
  \/ ~cfg.infinite /\ cfg.count_limit > 0 /\ n > cfg.count_limit

\* The loop leaves after this event: the default stops at the first press,
\* -n N at the N-th.
LimitReached(n) ==
  \/ ~cfg.infinite /\ cfg.count_limit = 0 /\ n >= 1
  \/ ~cfg.infinite /\ cfg.count_limit > 0 /\ n >= cfg.count_limit

\* A dt that is taken from the zero clock value when there is no last event.
ElapsedSince_Mut(lastt, t) == t - lastt

\* dt in the capture loop: 0 while last_emit_time is zero, otherwise the
\* time since last_emit_time.
ElapsedSince(lastt, t) == IF lastt # 0 THEN t - lastt ELSE 0

\* A buffer that keeps the newest event in its last slot once it is full.
StoreEvent_Mut(es, e, cap) ==
  IF Len(es) < cap THEN Append(es, e)
  ELSE IF cap = 0 THEN es ELSE [es EXCEPT ![cap] = e]

\* "if (ev_count < max_events) events[ev_count++] = ev"
StoreEvent(es, e, cap) == IF Len(es) < cap THEN Append(es, e) ELSE es

\* The body of the loop after read_sgr_event_timeout returned
MainReturn ==
  /\ pc = "loop" /\ rpc = "ret"
  /\ fin' = FALSE
  /\ rpc' = "idle"
  /\ IF rv = -1 \/ rv = 2
       THEN pc' = "fin" /\ UNCHANGED <<mainVars, out, marks>>
     ELSE IF rv = 0
       THEN UNCHANGED <<pc, mainVars, out, marks>>
     ELSE IF cfg.mode = "record"
       THEN /\ events' = StoreEvent(events, ev, max_events)
            /\ received' = Append(received, ev)
            /\ emitT' = IF Len(events) < max_events
                          THEN Append(emitT, now) ELSE emitT
            /\ UNCHANGED <<pc, outputs, outs, outs_cap, max_events, rec_start,
                           last_emit_time, played, out, marks>>
     ELSE
       LET dt == ElapsedSince(last_emit_time, now)
           n == IF ev.type = EVT_PRESS THEN outputs + 1 ELSE outputs
           grow == Len(outs) + 1 > outs_cap
           stored == /\ outs' = Append(outs, [ev |-> ev, dt |-> dt])
                     /\ emitT' = Append(emitT, now)
                     /\ outputs' = n
                     /\ pc' = IF LimitReached(n) THEN "fin" ELSE "loop"
                     /\ UNCHANGED out
       IN  /\ marks' = MarkIf(cfg.do_mark /\ ev.type = EVT_PRESS, ev)
           /\ last_emit_time' = now
           /\ UNCHANGED <<events, max_events, rec_start, played, received>>
           /\ IF IsJson(cfg.out_mode)
                THEN IF grow
                       THEN \/ /\ outs_cap' = IF outs_cap = 0 THEN 256
                                              ELSE outs_cap * 2
                               /\ stored
                            \/ \* realloc failed: "out of memory", break
                               /\ pc' = "fin"
                               /\ UNCHANGED <<outs, outs_cap, outputs, out,
                                              emitT>>
                       ELSE stored /\ UNCHANGED outs_cap
                ELSE /\ out' = IF cfg.out_mode = OUT_JSONL
                                 THEN Append(out, print_json_line(ev, dt))
                               ELSE IF ev.type = EVT_PRESS
                                 THEN Append(out, CsvLine(ev))
                               ELSE out
                     /\ emitT' = IF cfg.out_mode = OUT_JSONL
                                   THEN Append(emitT, now) ELSE emitT
                     /\ outputs' = n
                     /\ pc' = IF LimitReached(n) THEN "fin" ELSE "loop"
                     /\ UNCHANGED <<outs, outs_cap>>
  /\ UNCHANGED <<cfgVars, buf, tmo, selStart, rv, ev, envVars, clickVars,
                 exit, cleanup_done, out_closed, term, tty_open, rcalls, sigs,
                 histVars>>

\* The body of the loop when the line of the event is written to a pipe
\* whose reader has gone: the mark is drawn, then write raises SIGPIPE, for
\* which no handler is installed, and the process is killed.
BrokenPipe ==
  /\ pc = "loop" /\ rpc = "ret" /\ rv = 1
  /\ cfg.mode = "stream" /\ ~IsJson(cfg.out_mode)
  /\ cfg.out_mode = OUT_JSONL \/ ev.type = EVT_PRESS
  /\ ~cfg.outfile /\ ~cfg.stdout_tty
  /\ fin' = FALSE
  /\ rpc' = "idle"
  /\ marks' = MarkIf(cfg.do_mark /\ ev.type = EVT_PRESS, ev)
  /\ pc' = "exited"
  /\ exit' = 141    \* 128 + SIGPIPE, as a shell reports it
  /\ UNCHANGED <<cfgVars, buf, tmo, selStart, rv, ev, envVars, clickVars,
                 mainVars, out, cleanup_done, out_closed, term, tty_open,
                 rcalls, sigs, histVars>>

\* main returns rc
Returns(rc) == pc' = "done" /\ exit' = rc

\* The rest of main when it uses out_fp after fclose, which is undefined:
\* the text is lost or written and main returns 0, or the C library aborts
\* the process (SIGABRT, reported by a shell as 134).
UseClosed(written) ==
  \/ Returns(0) /\ out' \in {out, written}
  \/ pc' = "exited" /\ exit' = 134 /\ out' = out

\* What a fprintf or fflush on out_fp adds to term: nothing while the
\* stream is open (or is stdout), an entry when fclose has been called on it.
SinkUse(closed) ==
  IF closed THEN <<[op |-> "use_closed", fd |-> "out_fp"]>> ELSE <<>>

\* After the loop, outside record mode: restore_terminal, then the JSON
\* history of the JSON modes; return 0.  Writing to out_fp after
\* restore_terminal closed it is undefined: the document may be lost.
MainFinish ==
  /\ pc = "fin" /\ cfg.mode = "stream"
  /\ fin' = FALSE
  /\ Restore(IF IsJson(cfg.out_mode) THEN SinkUse(out_closed') ELSE <<>>)
  /\ LET duration == IF Len(outs) > 1 THEN SumDt(outs, Len(outs)) ELSE 0
         \* started_at is taken here, after the loop
         doc == print_json_history(outs, cfg.out_mode = OUT_PRETTY, "stream",
                                   now, duration)
     IN  IF ~IsJson(cfg.out_mode) THEN Returns(0) /\ out' = out
         ELSE IF out_closed' THEN UseClosed(Append(out, doc))
         ELSE Returns(0) /\ out' = Append(out, doc)
  /\ UNCHANGED <<cfgVars, decVars, nfrag, now, got_sig, eintr, eof, clickVars,
                 mainVars, marks, histVars>>

\* The first writes of playback_events_color when there is an event to
\* play: enter the alternate screen, hide the cursor.  They go to standard
\* output, ttyfd being STDIN_FILENO after restore_terminal.
PlaybackPrologue ==
  IF Len(events) = 0 THEN <<>>
  ELSE <<[op |-> "alt_on", fd |-> "stdout"],
         [op |-> "cur_hide", fd |-> "stdout"]>>

\* Its last writes: show the cursor, leave the alternate screen.
PlaybackEpilogue ==
  IF Len(events) = 0 THEN <<>>
  ELSE <<[op |-> "cur_show", fd |-> "stdout"],
         [op |-> "alt_off", fd |-> "stdout"]>>

\* After the loop in record mode: the duration is computed,
\* restore_terminal is called and playback_events_color is entered.
RecordFinish ==
  /\ pc = "fin" /\ cfg.mode = "record"
  /\ fin' = FALSE
  /\ pc' = "play"
  /\ played' = 0
  /\ Restore(PlaybackPrologue)
  /\ UNCHANGED <<cfgVars, decVars, nfrag, now, got_sig, eintr, eof, clickVars,
                 outputs, outs, outs_cap, events, max_events, rec_start,
                 last_emit_time, received, emitT, out, marks, exit, histVars>>

\* The longest pause between two dots, "if (dt > 0.5) dt = 0.5", and the
\* pause after the last dot, in ticks
PlaybackMaxPause == 2
TrailingPause == 4

\* nanosleep is called for d ticks
Pause(d) == [op |-> "pause", fd |-> "none", d |-> d]

\* The dot of event e, written at its row and column, each at least 1
Dot(e) ==
  [op |-> "dot", fd |-> "stdout",
   at |-> <<IF e.x < 1 THEN 1 ELSE e.x, IF e.y < 1 THEN 1 ELSE e.y>>]

\* The pause before events[i + 1] (i > 0): the time between it and the
\* event before, at most PlaybackMaxPause; no pause when that is not
\* positive
PauseBefore(es, i) ==
  LET dt == es[i + 1].t - es[i].t
  IN  IF dt > PlaybackMaxPause THEN PlaybackMaxPause ELSE dt

\* playback_events_color after its first writes, one step at a time.  A
\* signal can be handled between any two of the steps, so the tests of
\* got_sig and the calls that follow them are steps of their own:
\*   "play"        the test of "for (i = 0; i < n && !got_sig; ++i)" and
\*                 the computation of the pause
\*   "play_pause"  nanosleep is called
\*   "play_sleep"  nanosleep returns, and "if (got_sig) break"
\*   "play_draw"   the dot of events[i] is written, ++i
\*   "play_end"    "if (!got_sig)"
\*   "play_trail"  the trailing nanosleep is called
\*   "play_tail"   the trailing nanosleep returns
\* and at the end the cursor is shown and the alternate screen left.  With
\* n = 0 the function has returned at once.  The pauses are not on the
\* clock of the model: nothing reads it after capture.
PlaybackStep ==
  /\ pc \in {"play", "play_pause", "play_sleep", "play_draw", "play_end",
             "play_trail", "play_tail"}
  /\ fin' = FALSE
  /\ CASE pc = "play" ->
            /\ pc' = IF Len(events) = 0 THEN "dump"
                     ELSE IF ~(played < Len(events) /\ ~got_sig)
                       THEN "play_end"
                     ELSE IF played > 0 /\ PauseBefore(events, played) > 0
                       THEN "play_pause"
                     ELSE "play_draw"
            /\ UNCHANGED <<played, term>>
       [] pc = "play_pause" ->
            /\ pc' = "play_sleep"
            /\ term' = Append(term, Pause(PauseBefore(events, played)))
            /\ UNCHANGED played
       [] pc = "play_sleep" ->
            /\ pc' = IF got_sig THEN "play_end" ELSE "play_draw"
            /\ UNCHANGED <<played, term>>
       [] pc = "play_draw" ->
            /\ term' = Append(term, Dot(events[played + 1]))
            /\ played' = played + 1
            /\ pc' = "play"
       [] pc = "play_end" ->
            IF ~got_sig
              THEN pc' = "play_trail" /\ UNCHANGED <<played, term>>
              ELSE /\ pc' = "dump"
                   /\ term' = term \o PlaybackEpilogue
                   /\ UNCHANGED played
       [] pc = "play_trail" ->
            /\ pc' = "play_tail"
            /\ term' = Append(term, Pause(TrailingPause))
            /\ UNCHANGED played
       [] pc = "play_tail" ->
            /\ pc' = "dump"
            /\ term' = term \o PlaybackEpilogue
            /\ UNCHANGED played
  /\ UNCHANGED <<cfgVars, decVars, envVars, clickVars, outputs, outs, outs_cap,
                 events, max_events, rec_start, last_emit_time, received,
                 emitT, out, marks, exit, cleanup_done, out_closed, tty_open,
                 rcalls, sigs, histVars>>

RECURSIVE RecordLines(_, _)
\* The lines record mode writes for the first n events: one per event in
\* JSONL, one per press in CSV.
RecordLines(es, n) ==
  IF n = 0 THEN <<>>
  ELSE IF cfg.out_mode = OUT_JSONL
    THEN Append(RecordLines(es, n - 1),
                print_json_line(es[n], IF n > 1 THEN es[n].t - es[n - 1].t ELSE 0))
  ELSE IF es[n].type = EVT_PRESS
    THEN Append(RecordLines(es, n - 1), CsvLine(es[n]))
  ELSE RecordLines(es, n - 1)

\* The dump of record mode after playback; return 0.  As in MainFinish the
\* write follows restore_terminal.
RecordDump ==
  /\ pc = "dump"
  /\ fin' = FALSE
  /\ LET n == Len(events)
         duration == IF n > 1 THEN events[n].t - events[1].t ELSE 0
         written ==
           IF IsJson(cfg.out_mode)
             \* started_at was taken after the loop, before the playback,
             \* during which the clock of the model stands still
             THEN Append(out, print_json_from_events(
                                events, cfg.out_mode = OUT_PRETTY, "record",
                                now, duration))
             ELSE out \o RecordLines(events, n)
         \* JSONL prints nothing when there is no event; the JSON modes
         \* print a document and CSV calls fflush in any case
         used == n > 0 \/ cfg.out_mode # OUT_JSONL
     IN  /\ IF out_closed /\ used THEN UseClosed(written)
            ELSE Returns(0) /\ out' = written
         /\ term' = term \o (IF used THEN SinkUse(out_closed) ELSE <<>>)
  /\ UNCHANGED <<cfgVars, decVars, envVars, clickVars, mainVars, marks,
                 cleanup_done, out_closed, tty_open, rcalls, sigs, histVars>>

(***************************************************************************)
(* Initial states and specifications                                       *)
(***************************************************************************)
Options(mode, infinite, count_limit, click_N, out_mode, do_mark, ticks) ==
  [mode |-> mode, click_mode |-> mode = "click",
   args_ok |-> TRUE, n_given |-> count_limit # 0,
   record_mode |-> mode = "record", infinite |-> infinite,
   count_limit |-> count_limit, click_N |-> click_N, out_mode |-> out_mode,
   do_mark |-> do_mark, record_ticks |-> ticks, outfile |-> FALSE,
   devtty |-> FALSE, stdout_tty |-> TRUE]

\* parse_positive_int on the text s of an option argument: ok is its result,
\* int is (int)v, the value main assigns to count_limit or click_N.
parse_positive_int(s) ==
  LET r == strtol(s)
      i == SkipSpace(s, 1)
      neg == i <= Len(s) /\ s[i] = "-"
      j == IF i <= Len(s) /\ s[i] \in {"-", "+"} THEN i + 1 ELSE i
      e == DigitsEnd(s, j)
      z == SkipZeros(s, j, e)
  IN  [ok |-> ~r.erange /\ r.conv /\ e = Len(s) + 1 /\ ~neg /\ z < e,
       int |-> r.int]

\* The option variables of main after getopt_long, from the argument texts
\* of -n and -c and the seconds of -r (<<>> and 0: the option is absent),
\* the flags, and the descriptors the process was started with: devtty when
\* standard input or output is not a terminal, so that /dev/tty is opened.
\* args_ok is false when getopt_long's loop returns 2 for a bad argument.
RawOptions(infinite, n_arg, c_arg, r_arg, out_mode, do_mark, outfile, devtty, stdout_tty) ==
  LET parsed == [a \in {n_arg, c_arg} |-> parse_positive_int(a)]
      pn == parsed[n_arg]
      pcl == parsed[c_arg]
  IN  [mode |-> IF c_arg # <<>> THEN "click"
                ELSE IF r_arg > 0 THEN "record" ELSE "stream",
       args_ok |-> (n_arg = <<>> \/ pn.ok) /\ (c_arg = <<>> \/ pcl.ok),
       n_given |-> n_arg # <<>>,
       click_mode |-> c_arg # <<>>, record_mode |-> r_arg > 0,
       infinite |-> infinite,
       count_limit |-> IF n_arg = <<>> THEN 0 ELSE pn.int,
       click_N |-> IF c_arg = <<>> THEN 0 ELSE pcl.int,
       out_mode |-> out_mode, do_mark |-> do_mark, record_ticks |-> r_arg,
       outfile |-> outfile, devtty |-> devtty, stdout_tty |-> stdout_tty]

OutModes == {OUT_CSV, OUT_JSON, OUT_PRETTY, OUT_JSONL}

\* Everything a process starts with, before main has done anything.  The
\* monotonic clock starts at 1 (0 is the "no event yet" value of
\* last_emit_time).
Fresh(c, l) ==
  /\ cfg = c
  /\ lib = l
  /\ rpc = "idle" /\ buf = <<>> /\ tmo = -1 /\ selStart = 1
  /\ rv = 0 /\ ev = NoEv
  /\ queue = <<>> /\ nfrag = 0 /\ now = 1
  /\ got_sig = FALSE /\ eintr = FALSE /\ eof = FALSE
  /\ first = NoEv /\ last = NoEv /\ count = 0 /\ members = <<>>
  /\ started_at = (IF c.click_mode THEN now ELSE 0)
  /\ outputs = 0 /\ outs = <<>> /\ outs_cap = 0 /\ events = <<>>
  /\ max_events = (IF c.mode = "record" THEN EventsCapacity(c.record_ticks)
                                        ELSE 0)
  /\ rec_start = 1 /\ last_emit_time = 0 /\ played = 0 /\ received = <<>>
  /\ emitT = <<>>
  /\ out = <<>> /\ marks = <<>> /\ exit = -1
  /\ cleanup_done = FALSE /\ out_closed = FALSE
  /\ rcalls = 0 /\ sigs = 0
  /\ cur = 0 /\ prev = 0 /\ arrPc = "idle" /\ fin = FALSE

\* What main does to the terminal before its first wait: tcsetattr with
\* ICANON and ECHO cleared, then enable_mouse_reporting.
SetupOps(c) ==
  LET fd == IF c.devtty THEN "tty" ELSE "stdout"
  IN  <<[op |-> "tcsetattr_raw", fd |-> fd], [op |-> "mouse_on", fd |-> fd]>>

\* The state when main reaches its first wait: raw mode is set, mouse
\* reporting is on, nothing has been read.
Start(c, l) ==
  /\ Fresh(c, l)
  /\ pc = IF c.mode = "click" THEN "first" ELSE "loop"
  /\ term = SetupOps(c)
  /\ tty_open = c.devtty

\* The process has been started and its arguments parsed; nothing else has
\* been done.
Launch(c, l) ==
  /\ Fresh(c, l)
  /\ pc = "args"
  /\ term = <<>>
  /\ tty_open = FALSE

\* The exclusivity tests of main
Exclusive(c) ==
  \/ c.infinite /\ c.count_limit # 0
  \/ c.click_mode /\ (c.infinite \/ c.count_limit # 0 \/ c.record_mode)
  \/ c.record_mode /\ c.click_mode

\* main up to the opening of the terminal: a bad option argument and an
\* exclusive combination return 2.
CheckOptions ==
  /\ pc = "args"
  /\ IF ~cfg.args_ok \/ Exclusive(cfg) THEN pc' = "exited" /\ exit' = 2
                        ELSE pc' = "setup" /\ UNCHANGED exit
  /\ fin' = FALSE
  /\ UNCHANGED <<cfgVars, decVars, envVars, clickVars, mainVars, out, marks,
                 cleanup_done, out_closed, term, tty_open, rcalls, sigs,
                 histVars>>

\* main from the opening of /dev/tty to its first wait.  Each step can fail:
\* no terminal (2), the output file exists (4) or cannot be opened (3),
\* tcgetattr or tcsetattr fails (1); these return before atexit is called.
\* When calloc fails in record mode main returns 1 with raw mode set and
\* mouse reporting on.
Setup ==
  /\ pc = "setup"
  /\ fin' = FALSE
  /\ \E r \in {"ok", "notty", "outfile", "tcattr", "alloc"} :
       CASE r = "ok" ->
              /\ pc' = (IF cfg.click_mode THEN "first" ELSE "loop")
              /\ term' = SetupOps(cfg)
              /\ tty_open' = cfg.devtty
              /\ UNCHANGED exit
         [] r = "notty" ->
              /\ cfg.devtty
              /\ pc' = "exited" /\ exit' = 2
              /\ UNCHANGED <<term, tty_open>>
         [] r = "outfile" ->
              /\ cfg.outfile
              /\ pc' = "exited" /\ exit' \in {3, 4}
              /\ UNCHANGED <<term, tty_open>>
         [] r = "tcattr" ->
              /\ pc' = "exited" /\ exit' = 1
              /\ UNCHANGED <<term, tty_open>>
         [] r = "alloc" ->
              /\ cfg.record_mode
              /\ pc' = "done" /\ exit' = 1
              /\ term' = SetupOps(cfg)
              /\ tty_open' = cfg.devtty
  /\ UNCHANGED <<cfgVars, decVars, envVars, clickVars, mainVars, out, marks,
                 cleanup_done, out_closed, rcalls, sigs, histVars>>

\* main has returned: the handler registered with atexit runs and the
\* process ends.
AtExit ==
  /\ pc = "done"
  /\ pc' = "exited"
  /\ restore_terminal
  /\ fin' = FALSE
  /\ UNCHANGED <<cfgVars, decVars, nfrag, now, got_sig, eintr, eof, clickVars,
                 mainVars, out, marks, exit, histVars>>

Decoder ==
  \/ SelectEnter \/ SelectTimeout \/ ScanByte \/ EscByte \/ BracketByte
  \/ BodyByte \/ ReadEof \/ Interrupted

\* The decoder under a continuous capture (-i) reading every kind of input
InitDecode ==
  Start(Options("stream", TRUE, 0, 0, OUT_CSV, FALSE, 0), "decode")

NextDecode ==
  \/ \E i \in 1..Len(DecodeLib) : Arrive(i)
  \/ SelectEnter \/ ScanByte \/ EscByte \/ BracketByte \/ BodyByte
  \/ MainCall \/ MainReturn \/ MainFinish

SpecDecode == InitDecode /\ [][NextDecode]_vars

\* Multiclick detection: -c N with marks in CSV, and -c 2 in the other
\* output formats
ClickOptions ==
  {Options("click", FALSE, 0, n, OUT_CSV, TRUE, 0) : n \in 1..MaxN}
    \cup {Options("click", FALSE, 0, 2, m, FALSE, 0) : m \in OutModes \ {OUT_CSV}}

InitClick == \E c \in ClickOptions : Start(c, "click")

NextClick ==
  \/ \E i \in 1..Len(ClickLib) : Arrive(i)
  \/ Tick \/ Signal \/ Hangup
  \/ Decoder
  \/ ClickFirstCall \/ ClickFirstReturn \/ ClickFollowCall \/ ClickFollowReturn

SpecClick == InitClick /\ [][NextClick]_vars

\* The capture loop: the default and -n N in CSV with marks, -n 2 in JSON,
\* -i in pretty JSON and in JSONL
StreamOptions ==
  {Options("stream", FALSE, n, 0, OUT_CSV, TRUE, 0) : n \in 0..MaxN}
    \cup {Options("stream", FALSE, 2, 0, OUT_JSON, FALSE, 0),
          Options("stream", TRUE, 0, 0, OUT_PRETTY, FALSE, 0),
          Options("stream", TRUE, 0, 0, OUT_JSONL, TRUE, 0)}

InitStream == \E c \in StreamOptions : Start(c, "stream")

\* Outside record mode the capture loop waits without a timeout.
NextStream ==
  \/ \E i \in 1..Len(StreamLib) : Arrive(i)
  \/ Tick \/ Signal \/ Hangup
  \/ SelectEnter \/ ScanByte \/ EscByte \/ BracketByte \/ BodyByte
  \/ ReadEof \/ Interrupted
  \/ MainCall \/ MainReturn \/ MainFinish

SpecStream == InitStream /\ [][NextStream]_vars

\* The batched JSON formats in the three kinds of session: -c 2, -n 2 and
\* -i, and -r with a recording time of half a second.
JsonOptions ==
  {Options("click", FALSE, 0, 2, m, FALSE, 0) : m \in {OUT_JSON, OUT_PRETTY}}
    \cup {Options("stream", FALSE, 2, 0, OUT_JSON, FALSE, 0),
          Options("stream", TRUE, 0, 0, OUT_PRETTY, FALSE, 0)}
    \cup {Options("record", FALSE, 0, 0, m, FALSE, 2) : m \in {OUT_JSON, OUT_PRETTY}}

InitJson ==
  \E c \in JsonOptions :
    Start(c, IF c.mode = "click" THEN "click" ELSE "stream")

NextJson ==
  \/ \E i \in 1..Len(Lib) : Arrive(i)
  \/ Tick \/ Signal \/ Hangup
  \/ Decoder
  \/ ClickFirstCall \/ ClickFirstReturn \/ ClickFollowCall \/ ClickFollowReturn
  \/ MainCall \/ MainReturn \/ MainFinish
  \/ RecordFinish \/ PlaybackStep \/ RecordDump

SpecJson == InitJson /\ [][NextJson]_vars

\* Record mode: -r for a quarter and for half a second, in CSV with -m, in
\* JSON and in JSONL
RecordOptions ==
  {Options("record", FALSE, 0, 0, OUT_CSV, TRUE, 1),
   Options("record", FALSE, 0, 0, OUT_JSON, FALSE, 2),
   Options("record", FALSE, 0, 0, OUT_JSONL, FALSE, 2)}

InitRecord == \E c \in RecordOptions : Start(c, "record")

NextRecord ==
  \/ \E i \in 1..Len(RecordLib) : Arrive(i)
  \/ Tick \/ Signal \/ Hangup
  \/ Decoder
  \/ MainCall \/ MainReturn
  \/ RecordFinish \/ PlaybackStep \/ RecordDump

SpecRecord == InitRecord /\ [][NextRecord]_vars

\* The recording of one tick, in JSON, that the flood is sent to
FloodOptions == Options("record", FALSE, 0, 0, OUT_JSON, FALSE, 1)

\* The flood from main's first wait on
InitFloodStart == Start(FloodOptions, "flood")

\* The presses of the flood that the capture loop has stored when the
\* flood specification begins: all but the last slot of the buffer
FloodPre == EventsCapacity(1) - 1

\* The k-th press of the flood as read_sgr_event_timeout hands it over in
\* the first tick
FloodEvent(k) == [x |-> 1000 + k, y |-> 1, button |-> 0, type |-> 1, t |-> 1]

\* The capture loop after it has stored the first FloodPre presses of the
\* flood and is about to call read_sgr_event_timeout again: the state that
\* InitFloodStart leads to (FloodPrefixReached), from which the buffer
\* fills up
FloodPrefilled ==
  /\ cfg = FloodOptions /\ lib = "flood" /\ pc = "loop"
  /\ rpc = "idle" /\ buf = <<>> /\ tmo = 1 /\ selStart = 1
  /\ rv = 1 /\ ev = FloodEvent(FloodPre)
  /\ queue = SubSeq(FloodLib[1].bytes, 12 * FloodPre + 1, 12 * FloodCount)
  /\ nfrag = 1 /\ now = 1
  /\ got_sig = FALSE /\ eintr = FALSE /\ eof = FALSE
  /\ first = NoEv /\ last = NoEv /\ count = 0 /\ members = <<>>
  /\ started_at = 0
  /\ outputs = 0 /\ outs = <<>> /\ outs_cap = 0
  /\ events = [k \in 1..FloodPre |-> FloodEvent(k)]
  /\ max_events = EventsCapacity(1)
  /\ rec_start = 1 /\ last_emit_time = 0 /\ played = 0
  /\ received = [k \in 1..FloodPre |-> FloodEvent(k)]
  /\ emitT = [k \in 1..FloodPre |-> 1]
  /\ out = <<>> /\ marks = <<>> /\ exit = -1
  /\ cleanup_done = FALSE /\ out_closed = FALSE
  /\ rcalls = 0 /\ sigs = 0
  /\ cur = 0 /\ prev = 0 /\ arrPc = "idle" /\ fin = FALSE
  /\ term = SetupOps(FloodOptions) /\ tty_open = FALSE

InitFlood == FloodPrefilled

NextFlood ==
  \/ \E i \in 1..Len(FloodLib) : Arrive(i)
  \/ Tick
  \/ SelectEnter \/ SelectTimeout \/ ScanByte \/ EscByte \/ BracketByte
  \/ BodyByte
  \/ MainCall \/ MainReturn
  \/ RecordFinish \/ PlaybackStep \/ RecordDump

SpecFlood == InitFlood /\ [][NextFlood]_vars

SpecFloodStart == InitFloodStart /\ [][NextFlood]_vars

\* From main's first wait the flood leads to FloodPrefilled and to no other
\* state with FloodPre presses stored and the next call about to be made
FloodPrefixReached ==
  (Len(received) = FloodPre /\ pc = "loop" /\ rpc = "idle") => FloodPrefilled

\* A recording of one second (-r 1) and its playback
PlayOptions == Options("record", FALSE, 0, 0, OUT_CSV, FALSE, 4)

InitPlay == Start(PlayOptions, "play")

\* The recording ends on Enter, a hangup or a signal: its deadline is
\* beyond the last clock value MaxTime.
NextPlay ==
  \/ \E i \in 1..Len(PlayLib) : Arrive(i)
  \/ Tick \/ Signal \/ Hangup
  \/ SelectEnter \/ ScanByte \/ EscByte \/ BracketByte \/ BodyByte
  \/ ReadEof \/ Interrupted
  \/ MainCall \/ MainReturn
  \/ RecordFinish \/ PlaybackStep \/ RecordDump

SpecPlay == InitPlay /\ [][NextPlay]_vars

\* A continuous capture in JSON (-i -j), on standard output and into a
\* file given with -o, whose input outgrows the first allocation of the
\* history buffer
GrowOptions ==
  {[Options("stream", TRUE, 0, 0, OUT_JSON, FALSE, 0) EXCEPT !.outfile = f] :
     f \in BOOLEAN}

\* The capture from main's first wait on
InitGrowStart == \E c \in GrowOptions : Start(c, "grow")

\* The presses of the burst that the capture loop has put into the history
\* buffer when the specification begins: all but the last slot
GrowPre == OutsFirstCap - 1

\* The capture loop after it has buffered the first GrowPre presses of the
\* burst and is about to call read_sgr_event_timeout again: the state that
\* InitGrowStart leads to (GrowPrefixReached)
GrowPrefilled(c) ==
  /\ cfg = c /\ lib = "grow" /\ pc = "loop"
  /\ rpc = "idle" /\ buf = <<>> /\ tmo = -1 /\ selStart = 1
  /\ rv = 1 /\ ev = FloodEvent(GrowPre)
  /\ queue = SubSeq(GrowLib[1].bytes, 12 * GrowPre + 1, 12 * GrowCount)
  /\ nfrag = 1 /\ now = 1
  /\ got_sig = FALSE /\ eintr = FALSE /\ eof = FALSE
  /\ first = NoEv /\ last = NoEv /\ count = 0 /\ members = <<>>
  /\ started_at = 0
  /\ outputs = GrowPre
  /\ outs = [k \in 1..GrowPre |-> [ev |-> FloodEvent(k), dt |-> 0]]
  /\ outs_cap = OutsFirstCap
  /\ events = <<>> /\ max_events = 0
  /\ rec_start = 1 /\ last_emit_time = 1 /\ played = 0
  /\ received = <<>>
  /\ emitT = [k \in 1..GrowPre |-> 1]
  /\ out = <<>> /\ marks = <<>> /\ exit = -1
  /\ cleanup_done = FALSE /\ out_closed = FALSE
  /\ rcalls = 0 /\ sigs = 0
  /\ cur = 0 /\ prev = 0 /\ arrPc = "idle" /\ fin = FALSE
  /\ term = SetupOps(c) /\ tty_open = FALSE

InitGrow == \E c \in GrowOptions : GrowPrefilled(c)

NextGrow ==
  \/ \E i \in 1..Len(GrowLib) : Arrive(i)
  \/ SelectEnter \/ ScanByte \/ EscByte \/ BracketByte \/ BodyByte
  \/ MainCall \/ MainReturn \/ MainFinish

SpecGrow == InitGrow /\ [][NextGrow]_vars

SpecGrowStart == InitGrowStart /\ [][NextGrow]_vars

\* From main's first wait the burst leads to GrowPrefilled and to no other
\* state with GrowPre presses buffered and the next call about to be made
GrowPrefixReached ==
  (Len(outs) = GrowPre /\ pc = "loop" /\ rpc = "idle") => GrowPrefilled(cfg)

\* The formats that carry dt in the three kinds of session: -c 2 in JSONL
\* and JSON, -i in JSONL, -n 2 in JSON, -r of half a second in JSONL and
\* pretty JSON
DtOptions ==
  {Options("click", FALSE, 0, 2, OUT_JSONL, FALSE, 0),
   Options("click", FALSE, 0, 2, OUT_JSON, FALSE, 0),
   Options("stream", TRUE, 0, 0, OUT_JSONL, FALSE, 0),
   Options("stream", FALSE, 2, 0, OUT_JSON, FALSE, 0),
   Options("record", FALSE, 0, 0, OUT_JSONL, FALSE, 2),
   Options("record", FALSE, 0, 0, OUT_PRETTY, FALSE, 2)}

InitDt ==
  \E c \in DtOptions : Start(c, IF c.mode = "click" THEN "click" ELSE "stream")

NextDt ==
  \/ \E i \in 1..Len(Lib) : Arrive(i)
  \/ Tick \/ Signal \/ Hangup
  \/ Decoder
  \/ ClickFirstCall \/ ClickFirstReturn \/ ClickFollowCall \/ ClickFollowReturn
  \/ MainCall \/ MainReturn \/ MainFinish
  \/ RecordFinish \/ PlaybackStep \/ RecordDump

SpecDt == InitDt /\ [][NextDt]_vars

\* Whole runs, from the parsed arguments to the end of the process: every
\* mode with every output format written to a file given with -o, runs
\* with marks on standard output, runs with /dev/tty opened because standard
\* output is a pipe, and every combination of -i, -n, -c and -r.
Two == <<"2">>
One == <<"1">>
\* 2^32, which (int) turns into 0
Wrap == <<"4", "2", "9", "4", "9", "6", "7", "2", "9", "6">>

\* <<infinite, n_arg, c_arg, r_arg, out_mode, do_mark, outfile, devtty,
\* stdout_tty>>
RunArgs ==
  {<<FALSE, Two, <<>>, 0, m, FALSE, TRUE, FALSE, TRUE>> : m \in OutModes}
    \cup {<<FALSE, <<>>, Two, 0, m, FALSE, TRUE, FALSE, TRUE>> : m \in OutModes}
    \cup {<<FALSE, <<>>, <<>>, 1, m, FALSE, TRUE, FALSE, TRUE>> : m \in OutModes}
    \cup {<<FALSE, <<>>, <<>>, 0, OUT_CSV, TRUE, FALSE, FALSE, TRUE>>,
          <<TRUE, <<>>, <<>>, 0, OUT_CSV, TRUE, FALSE, FALSE, TRUE>>,
          <<FALSE, <<>>, Two, 0, OUT_CSV, TRUE, FALSE, FALSE, TRUE>>,
          <<FALSE, <<>>, <<>>, 2, OUT_CSV, TRUE, FALSE, FALSE, TRUE>>,
          <<FALSE, One, <<>>, 0, OUT_JSON, FALSE, TRUE, TRUE, FALSE>>,
          <<FALSE, <<>>, <<>>, 1, OUT_JSONL, FALSE, FALSE, TRUE, FALSE>>,
          <<TRUE, <<>>, <<>>, 0, OUT_CSV, FALSE, FALSE, TRUE, FALSE>>}
    \cup {<<oi, on, oc, or, OUT_CSV, FALSE, FALSE, FALSE, TRUE>> :
             oi \in BOOLEAN, on \in {<<>>, One, <<"0">>, Wrap},
             oc \in {<<>>, One}, or \in {0, 1}}

RunOptions ==
  {RawOptions(o[1], o[2], o[3], o[4], o[5], o[6], o[7], o[8], o[9]) :
     o \in RunArgs}

InitRun == \E c \in RunOptions : Launch(c, "run")

NextRun ==
  \/ CheckOptions \/ Setup
  \/ \E i \in 1..Len(RunLib) : Arrive(i)
  \/ Tick \/ Signal \/ SignalAgain \/ Hangup
  \/ Decoder
  \/ ClickFirstCall \/ ClickFirstReturn \/ ClickFollowCall \/ ClickFollowReturn
  \/ MainCall \/ MainReturn \/ BrokenPipe \/ MainFinish
  \/ RecordFinish \/ PlaybackStep \/ RecordDump
  \/ AtExit

SpecRun == InitRun /\ [][NextRun]_vars

Spec == SpecStream

(***************************************************************************)
(* Properties of the decoder (SpecDecode)                                  *)
(***************************************************************************)
\* The fragment delivered last, and the one before it
CurFrag == Lib[cur]
PrevFrag == Lib[prev]

\* The kind the input format gives a report: Release for the terminator m,
\* otherwise Press for Cb < 32 and Motion for Cb >= 32.
ExpectedType(f) ==
  IF f.term = "m" THEN EVT_RELEASE
  ELSE IF f.cb < 32 THEN EVT_PRESS ELSE EVT_MOTION

\* read_sgr_event_timeout has just returned the event of the report f.
Decoded(f) ==
  /\ rpc = "ret" /\ rv = 1
  /\ f.fits
  /\ ev.button = f.cb /\ ev.x = f.cx /\ ev.y = f.cy
  /\ ev.type = ExpectedType(f)

\* The last byte of a well-formed report that began in the scan state has
\* just been read.
ReportJustRead ==
  fin /\ cur # 0 /\ CurFrag.kind = "sgr" /\ arrPc = "select"

\* The report fits the scratch buffer ('<' through the terminator in at most
\* SGR_BUF - 1 bytes) and its three values fit an int.
FitsDecoder(f) == f.fits /\ Len(f.bytes) - 2 <= SGR_BUF - 1

\* C1: every well-formed report ESC [ < Cb ; Cx ; Cy M|m read from
\* the scan state is returned as an event with button = Cb, x = Cx, y = Cy
\* and the kind its terminator and Cb give.
C1_EveryReportDecodes == ReportJustRead => Decoded(CurFrag)

\* What holds of C1: the same for the reports whose text from '<' through
\* the terminator is at most 127 bytes long and whose three values fit a
\* 32-bit int.
FittingReportDecodes ==
  ReportJustRead /\ FitsDecoder(CurFrag) => Decoded(CurFrag)

\* Reached: a report with Cb = 32 and terminator M decoded as a Motion event.
FittingReportDecoded ==
  /\ ReportJustRead /\ FitsDecoder(CurFrag) /\ Decoded(CurFrag)
  /\ CurFrag.cb = 32 /\ ev.type = EVT_MOTION

\* C2: a malformed sequence (non-numeric field, trailing non-digit bytes,
\* missing semicolon, truncated body, body that fills the scratch buffer
\* without a terminator) read from the scan state never makes
\* read_sgr_event_timeout return an event.
C2_MalformedYieldsNoEvent ==
  /\ cur # 0 /\ CurFrag.kind \in {"bad", "trunc", "over"}
  /\ arrPc = "select" /\ rpc = "ret"
  => rv # 1

\* C3: a well-formed report that follows a malformed or abandoned escape
\* sequence (ESC not followed by [ <, a rejected body, a truncated body) is
\* decoded as its own event.
C3_ResyncAfterMalformed ==
  /\ fin /\ cur # 0 /\ CurFrag.kind = "sgr" /\ FitsDecoder(CurFrag)
  /\ prev # 0 /\ PrevFrag.kind \in {"esc", "bad", "trunc"}
  => Decoded(CurFrag)

\* C4: a CR or LF byte read from the source makes read_sgr_event_timeout
\* return 2 (Enter) in every decoder state.
C4_EnterInEveryState ==
  fin /\ cur # 0 /\ CurFrag.kind = "enter" => rpc = "ret" /\ rv = 2

(***************************************************************************)
(* Properties of multiclick detection (SpecClick)                          *)
(***************************************************************************)
Abs(n) == IF n < 0 THEN -n ELSE n

\* The squared distance between the events a and e exceeds the radius
\* squared (as integers, evaluated without overflow).
Beyond(a, e) ==
  \/ Abs(a.x - e.x) > MULTICLICK_RADIUS
  \/ Abs(a.y - e.y) > MULTICLICK_RADIUS
  \/ (a.x - e.x) * (a.x - e.x) + (a.y - e.y) * (a.y - e.y)
       > MULTICLICK_RADIUS * MULTICLICK_RADIUS

\* The x, y and button a record of the output carries
Carried(r) ==
  IF r.kind = "json" THEN <<r.events[1].x, r.events[1].y, r.events[1].button>>
  ELSE <<r.x, r.y, r.button>>

ClickSucceeded == pc = "done" /\ exit = 0

C6_MembersWithinRadius ==
  \A i \in 1..Len(members) : ~Beyond(first, members[i])

\* C7: every accepted press after the anchor arrived within
\* MULTICLICK_MAX_GAP of the accepted press before it.
C7_MembersWithinGap ==
  \A i \in 2..Len(members) :
    members[i].t - members[i - 1].t <= MULTICLICK_MAX_GAP

\* What holds of C8: when detection ends on Enter or Terminated at the first
\* read, or on Timeout, Enter, Terminated or a press the radius test rejects
\* in a follow-up wait, the process result is 1, and with result 1 nothing
\* was written to the output sink and no mark was drawn.
FailurePathsYieldNothing ==
  /\ pc = "done" /\ rv \in {0, 2, -1} => exit = 1
  /\ pc = "done" /\ count < cfg.click_N => exit = 1
  /\ exit = 1 => out = <<>> /\ marks = <<>>

\* A press farther than MULTICLICK_RADIUS from the anchor was read in a
\* follow-up wait.
TooFarPressRead ==
  \/ \E i \in 2..Len(members) : Beyond(first, members[i])
  \/ count >= 1 /\ rv = 1 /\ ev.type = EVT_PRESS
       /\ Beyond(first, ev)

\* C8: when the first read returns Enter or Terminated, or a follow-up wait
\* ends in Timeout, Enter, Terminated or a too-far press, the process result
\* is 1, nothing is written to the output sink and no mark is drawn.
C8_FailureYieldsNothing ==
  /\ FailurePathsYieldNothing
  /\ pc = "done" /\ TooFarPressRead =>
       exit = 1 /\ out = <<>> /\ marks = <<>>

(***************************************************************************)
(* Properties of the capture loop (SpecStream)                             *)
(***************************************************************************)
\* The limit of a run without -i: 1 by default, N with -n N
Limit == IF cfg.count_limit = 0 THEN 1 ELSE cfg.count_limit

\* The step is the body of the capture loop after the decoder returned.
LoopBodyStep == pc = "loop" /\ rpc = "ret" /\ rpc' = "idle"

Stopped == pc \in {"fin", "done"}

LimitedStep ==
  ~cfg.infinite /\ cfg.mode = "stream" =>
    /\ outputs' <= Limit
    /\ ~LoopBodyStep => outputs' = outputs
    /\ LoopBodyStep /\ rv = 1 /\ ev.type # EVT_PRESS => outputs' = outputs
    /\ LoopBodyStep /\ rv = 1 /\ ev.type = EVT_PRESS =>
         \/ outputs' = outputs + 1
         \/ outputs' = outputs /\ pc' = "fin"
    /\ LoopBodyStep /\ rv = 1 /\ outputs' = Limit => pc' = "fin"
    /\ LoopBodyStep /\ rv \in {2, -1} => pc' = "fin" /\ outputs' = outputs
    /\ Stopped =>
         /\ pc' \in {"fin", "done"}
         /\ rpc' = "idle" /\ rv' = rv /\ ev' = ev
         /\ queue' \in {queue, <<>>}

\* C9: without -i, with limit N (1 by default), only a press increments the
\* count, the count never exceeds N, the loop is left by the step that
\* handles the press making the count N and by the step that handles Enter
\* or Terminated, and once it is left nothing more is read or decoded.
C9_CountsPressesUpToLimit == [][LimitedStep]_vars

\* C9 witness: -n 2 stopped at the second press with a motion event seen
\* before it and a further press still unread.
C9_Witness ==
  /\ pc = "fin" /\ ~cfg.infinite /\ cfg.count_limit = 2 /\ outputs = 2
  /\ rv = 1 /\ ev.type = EVT_PRESS
  /\ queue # <<>>
  /\ \E i \in 1..Len(outs) : outs[i].ev.type = EVT_MOTION

(***************************************************************************)
(* Properties of the batched JSON output (SpecJson)                        *)
(***************************************************************************)
\* The number of entries of "events" whose type is press
PressEntries(doc) ==
  Cardinality({j \in 1..Len(doc.events) : doc.events[j].type = "press"})

\* C10: in every batched JSON document written (stream, click and record
\* sessions) the field outputs equals the number of entries of events whose
\* type is press.
C10_OutputsCountsPresses ==
  \A i \in 1..Len(out) :
    out[i].kind = "json" => out[i].outputs = PressEntries(out[i])

\* C10 witness: the document of a record session with one press among
\* three events, the others a motion and a release.
C10_Witness ==
  \E i \in 1..Len(out) :
    /\ out[i].kind = "json" /\ out[i].mode = "record"
    /\ Len(out[i].events) = 3 /\ out[i].outputs = 1
    /\ \E j, k \in 1..3 : /\ out[i].events[j].type = "motion"
                           /\ out[i].events[k].type = "release"

(***************************************************************************)
(* Properties of record mode (SpecRecord)                                  *)
(***************************************************************************)
\* The deadline start + D of a recording
Deadline == rec_start + cfg.record_ticks

\* C11: in record mode, whatever the input, the capture loop is not waiting
\* for input once the recording time has elapsed: it leaves at the deadline
\* without a further byte, Enter or signal.
C11_LoopLeavesAtDeadline ==
  cfg.mode = "record" /\ pc = "loop" /\ now > Deadline => ~Blocked

\* The capacity C = min(floor(D * 1000) + 1024, 65536) with D in ticks of
\* 250 ms
Capacity ==
  IF cfg.record_ticks * 250 + 1024 < 65536
    THEN cfg.record_ticks * 250 + 1024 ELSE 65536

\* The first n elements of a sequence, all of it when it is shorter
Prefix(q, n) == SubSeq(q, 1, IF Len(q) < n THEN Len(q) ELSE n)

\* C12: in record mode the buffer is exactly the first min(k, C) of the k
\* events received, in order; the loop is left only at the deadline, on
\* Enter or on Terminated; and the events of the final JSON document are
\* those of the buffer, in order.
C12_RecordedIsPrefix ==
  cfg.mode = "record" =>
    /\ events = Prefix(received, Capacity)
    /\ pc # "loop" => rv \in {-1, 2} \/ got_sig \/ now >= Deadline
    /\ \A i \in 1..Len(out) :
         out[i].kind = "json" =>
           /\ Len(out[i].events) = Len(events)
           /\ \A j \in 1..Len(events) :
                /\ out[i].events[j].x = events[j].x
                /\ out[i].events[j].y = events[j].y
                /\ out[i].events[j].button = events[j].button
                /\ out[i].events[j].type = type_str(events[j].type)

\* C12 witness: more events were received than the buffer holds, the buffer
\* holds the first C of them, and the loop went on to Enter.
C12_Witness ==
  /\ cfg.mode = "record" /\ pc # "loop" /\ rv = 2
  /\ Len(received) > Capacity
  /\ Len(events) = Capacity
  /\ events[Capacity].x = received[Capacity].x
  /\ received[Len(received)].x # received[Capacity].x

(***************************************************************************)
(* Properties of dt (SpecDt)                                               *)
(***************************************************************************)
\* The dt values written so far, in order: those of the JSONL lines, or of
\* the events of the JSON document
WrittenDts ==
  IF out # <<>> /\ out[1].kind = "json"
    THEN [i \in 1..Len(out[1].events) |-> out[1].events[i].dt]
  ELSE IF out # <<>> /\ out[1].kind = "jsonl"
    THEN [i \in 1..Len(out) |-> out[i].dt]
  ELSE <<>>

\* C13: in stream, click and record runs the dt of the first event written
\* as JSON or JSONL is 0, the dt of every later one is the time elapsed
\* since the event written before it, and no dt is negative.
C13_DtIsElapsedSincePrevious ==
  /\ \A i \in 1..Len(WrittenDts) : WrittenDts[i] >= 0
  /\ WrittenDts # <<>> => WrittenDts[1] = 0
  /\ cfg.mode = "click" => Len(WrittenDts) <= 1
  /\ cfg.mode # "click" =>
       /\ Len(WrittenDts) <= Len(emitT)
       /\ \A i \in 2..Len(WrittenDts) : WrittenDts[i] = emitT[i] - emitT[i - 1]

\* C13 witness: a JSONL capture has written three lines, the second a
\* tick or more after the first and the third together with the second.
C13_Witness ==
  /\ cfg.mode = "stream" /\ cfg.out_mode = OUT_JSONL
  /\ Len(out) = 3 /\ out[1].dt = 0 /\ out[2].dt > 0 /\ out[3].dt = 0

(***************************************************************************)
(* The state of the terminal                                               *)
(***************************************************************************)
\* What an entry of term does to the terminal.
ApplyOp(st, op) ==
  CASE op = "tcsetattr_raw" -> [st EXCEPT !.tio = "raw"]
    [] op = "tcsetattr_orig" -> [st EXCEPT !.tio = "orig"]
    [] op = "mouse_on" -> [st EXCEPT !.mouse = TRUE]
    [] op = "mouse_off" -> [st EXCEPT !.mouse = FALSE]
    [] op = "alt_on" -> [st EXCEPT !.alt = TRUE]
    [] op = "alt_off" -> [st EXCEPT !.alt = FALSE]
    [] op = "cur_hide" -> [st EXCEPT !.cursor = FALSE]
    [] op = "cur_show" -> [st EXCEPT !.cursor = TRUE]
    [] op = "sig_restore" ->
         [st EXCEPT !.cursor = TRUE, !.alt = FALSE, !.mouse = FALSE]
    [] OTHER -> st

\* An entry reaches the terminal when it is made on the descriptor of
\* /dev/tty, or on the standard descriptors when they are the terminal.
OnTerminal(e) == e.fd = "tty" \/ cfg.stdout_tty

RECURSIVE TermAfter(_, _)
\* The terminal after the first n entries of log.
TermAfter(log, n) ==
  IF n = 0
    THEN [tio |-> "orig", mouse |-> FALSE, alt |-> FALSE, cursor |-> TRUE]
    ELSE IF OnTerminal(log[n]) THEN ApplyOp(TermAfter(log, n - 1), log[n].op)
    ELSE TermAfter(log, n - 1)

TermState == TermAfter(term, Len(term))

Did(op) == \E k \in 1..Len(term) : term[k].op = op

HowMany(op) == Cardinality({k \in 1..Len(term) : term[k].op = op})

\* C14: when a process that enabled raw mode has ended, the original
\* attributes are in force, mouse reporting is off, the primary screen is
\* active and the cursor is visible, whichever way the run ended.
C14_TerminalRestoredAtExit ==
  pc = "exited" /\ Did("tcsetattr_raw")
    => TermState = [tio |-> "orig", mouse |-> FALSE, alt |-> FALSE,
                    cursor |-> TRUE]

\* What does hold: the terminal is restored on every path but the death by
\* SIGPIPE.
ReturnPathsRestoreTerminal ==
  pc = "exited" /\ Did("tcsetattr_raw") /\ exit # 141
    => TermState = [tio |-> "orig", mouse |-> FALSE, alt |-> FALSE,
                    cursor |-> TRUE]

\* a record run that was signalled, played events back and ended
SignalledRecordEnded ==
  /\ pc = "exited" /\ Did("tcsetattr_raw")
  /\ cfg.record_mode /\ sigs > 0 /\ Did("cur_hide")

\* The teardown actions of restore_terminal
TeardownOps == {"mouse_off", "tcsetattr_orig", "fclose_out", "close_tty"}

\* C15: restore_terminal is idempotent.  A call made when it has already
\* been called writes nothing, performs no tcsetattr and closes nothing, so
\* each teardown action happens at most once per run.
C15_RestoreIsIdempotent ==
  /\ [](\A op \in TeardownOps : HowMany(op) <= 1)
  /\ [][rcalls' > rcalls /\ cleanup_done
          => /\ term' = term
             /\ out_closed' = out_closed
             /\ tty_open' = tty_open
             /\ cleanup_done']_vars

\* the explicit call and the call through atexit have both been made, of a
\* run that had an output file and /dev/tty to close
C15_Witness ==
  /\ pc = "exited" /\ rcalls = 2
  /\ HowMany("fclose_out") = 1 /\ HowMany("close_tty") = 1
  /\ HowMany("tcsetattr_orig") = 1

\* The restore sequences that reached the terminal: the sequence of
\* restore_terminal (it starts with the mouse-reporting disable), the
\* sequence of minimal_signal_restore, and the leave-alternate-screen that
\* ends a playback (the one of restore_terminal follows its tcsetattr).
RestoreSequences ==
  Cardinality({k \in 1..Len(term) :
                 /\ OnTerminal(term[k])
                 /\ \/ term[k].op \in {"mouse_off", "sig_restore"}
                    \/ /\ term[k].op = "alt_off"
                       /\ term[k - 1].op # "tcsetattr_orig"})

\* C16: a run that has ended has put exactly one restore sequence on the
\* terminal stream, whichever exit paths were taken.
C16_OneRestoreSequence ==
  pc = "exited" /\ Did("tcsetattr_raw") => RestoreSequences = 1

\* What does hold when main returned: restore_terminal has written its
\* sequence once, every handled signal has written one more, and a playback
\* that drew something one more again.
SequencesWritten ==
  pc = "exited" /\ Did("tcsetattr_raw") /\ exit # 141
    => /\ HowMany("mouse_off") = 1
       /\ HowMany("sig_restore") = sigs
       /\ HowMany("alt_off") = 1 + (IF Did("alt_on") THEN 1 ELSE 0)

\* C17: cancellation is never lost.  Once a signal has set got_sig, at
\* whatever point of the capture loop, the loop never waits for input, and
\* it emits, keeps and records no event.
C17_CancellationNeverLost ==
  /\ [](got_sig /\ pc = "loop" => ~Blocked)
  /\ [][got_sig /\ pc = "loop"
          => /\ out' = out
             /\ outs' = outs
             /\ events' = events
             /\ outputs' = outputs]_vars

\* The run has been refused with the invalid-parameter result before
\* anything was done: no terminal attribute set, no mouse reporting, no
\* file, no byte read.
Rejected ==
  /\ pc = "exited" /\ exit = 2
  /\ term = <<>> /\ nfrag = 0 /\ out = <<>> /\ ~out_closed

\* The command line holds one of the exclusive combinations.
GivenExclusive ==
  \/ cfg.infinite /\ cfg.n_given
  \/ cfg.click_mode /\ (cfg.infinite \/ cfg.n_given \/ cfg.record_mode)

\* C18: a command line with -i and -n, or with -c and any of -i, -n, -r,
\* is rejected with 2 before the run starts.
C18_ExclusiveRejected ==
  cfg.args_ok /\ GivenExclusive /\ pc # "args" => Rejected

\* What does hold: the combinations are rejected when the count kept in
\* the int count_limit is not 0.
ExclusiveValuesRejected ==
  Exclusive(cfg) /\ pc # "args" => Rejected

\* -c 1 -r 1 has been rejected
ClickWithRecordRejected ==
  cfg.click_mode /\ cfg.record_mode /\ ~cfg.infinite /\ ~cfg.n_given /\ Rejected

IsPressEv(e) == e.type = EVT_PRESS

\* The positions of the presses of a sequence of events, in order
PressPositions(es) ==
  LET ps == SelectSeq(es, IsPressEv)
  IN  [k \in 1..Len(ps) |-> <<ps[k].x, ps[k].y>>]

\* C19: with -m, in every mode, the marks drawn are the positions of the
\* presses consumed so far (record mode: the presses received; multiclick:
\* the presses counted; otherwise one mark per press counted in outputs),
\* and a step draws a mark only for a press, at its position.
C19_EveryPressMarked ==
  /\ [](cfg.do_mark /\ exit # 141
          => CASE cfg.mode = "record" -> marks = PressPositions(received)
               [] cfg.mode = "click" -> marks = PressPositions(members)
               [] OTHER -> Len(marks) = outputs)
  /\ [][marks' # marks
          => /\ cfg.do_mark /\ ev.type = EVT_PRESS
             /\ marks' = Append(marks, <<ev.x, ev.y>>)]_vars

\* What does hold: outside record and multiclick mode every press
\* consumed is marked, and no step marks anything but the press it handles.
StreamPressesMarked ==
  /\ [](cfg.do_mark /\ cfg.mode = "stream" /\ exit # 141
          => Len(marks) = outputs)
  /\ [][marks' # marks
          => /\ cfg.do_mark /\ ev.type = EVT_PRESS
             /\ marks' = Append(marks, <<ev.x, ev.y>>)]_vars

\* a capture with -m has marked two presses
TwoPressesMarked == cfg.mode = "stream" /\ Len(marks) = 2

\* C20: nothing is written to out_fp after restore_terminal has closed it.
C20_NoWriteAfterClose == ~Did("use_closed")

\* a click run has written its record to the file and closed it after
ClickWroteThenClosed ==
  /\ cfg.mode = "click" /\ cfg.outfile /\ pc = "exited"
  /\ out # <<>> /\ out_closed

(***************************************************************************)
(* The JSONL format                                                        *)
(***************************************************************************)
\* The step hands the event read_sgr_event_timeout returned to its caller.
EventConsumed == rpc = "ret" /\ rv = 1 /\ rpc' = "idle"

\* The step writes one JSONL record, that of the event being consumed,
\* after the records written before.
LineWritten ==
  /\ Len(out') = Len(out) + 1
  /\ SubSeq(out', 1, Len(out)) = out
  /\ out'[Len(out')] = print_json_line(ev, out'[Len(out')].dt)

\* C21: with JSONL each decoded event (press, motion or release) gets its
\* record when it is consumed, before the next event is read, after the
\* records of the events before it; and nothing else is written.
C21_JsonlRecordPerEvent ==
  [][cfg.out_mode = OUT_JSONL
       => /\ EventConsumed => LineWritten
          /\ out' # out => EventConsumed]_vars

\* What does hold: the capture loop outside record mode writes the record
\* of each event in the step that consumes it, and nothing else.
StreamJsonlPerEvent ==
  [][cfg.out_mode = OUT_JSONL /\ cfg.mode = "stream"
       => /\ EventConsumed => LineWritten
          /\ out' # out => EventConsumed]_vars

\* a JSONL capture has written a press, a motion and a release
JsonlThreeKinds ==
  /\ cfg.mode = "stream" /\ cfg.out_mode = OUT_JSONL /\ Len(out) = 3
  /\ {out[i].type : i \in 1..3} = {"press", "motion", "release"}

(***************************************************************************)
(* The history buffer of the JSON modes (SpecGrow)                         *)
(***************************************************************************)
\* The step handles an event for which the history buffer had to grow and
\* did not: realloc returned NULL.
GrowthFails ==
  /\ pc = "loop" /\ rpc = "ret" /\ rv = 1 /\ rpc' = "idle"
  /\ cfg.mode = "stream" /\ IsJson(cfg.out_mode)
  /\ Len(outs) + 1 > outs_cap
  /\ outs_cap' = outs_cap

\* The capture ended on a failed growth: the event returned last found the
\* buffer full and is not in it.
GrowthFailed ==
  /\ cfg.mode = "stream" /\ IsJson(cfg.out_mode)
  /\ pc \in {"fin", "done", "exited"}
  /\ rv = 1 /\ Len(outs) = outs_cap
  /\ outs = <<>> \/ outs[Len(outs)].ev # ev

\* The document written is the JSON dump of exactly the events in outs, in
\* order.
DumpOfBuffer(doc) ==
  /\ doc.kind = "json"
  /\ Len(doc.events) = Len(outs)
  /\ \A i \in 1..Len(outs) :
       /\ doc.events[i].x = outs[i].ev.x
       /\ doc.events[i].y = outs[i].ev.y
       /\ doc.events[i].button = outs[i].ev.button
       /\ doc.events[i].type = type_str(outs[i].ev.type)

\* C22: when growing the history buffer fails the capture loop stops, the
\* events buffered are kept as they are, and once main has returned the
\* JSON dump has been written with exactly those events, in order.
C22_DumpAfterAllocationFailure ==
  /\ [][GrowthFails => pc' = "fin" /\ outs' = outs /\ GrowthFailed']_vars
  /\ [][GrowthFailed => outs' = outs]_vars
  /\ [](GrowthFailed /\ pc \in {"done", "exited"}
          => Len(out) = 1 /\ DumpOfBuffer(out[1]))

\* What does hold: the loop stops with the buffer intact, and the dump is
\* written with exactly the buffered events when the output is standard
\* output.
DumpAfterFailureOnStdout ==
  /\ [][GrowthFails => pc' = "fin" /\ outs' = outs /\ GrowthFailed']_vars
  /\ [][GrowthFailed => outs' = outs]_vars
  /\ [](GrowthFailed /\ pc \in {"done", "exited"} /\ ~cfg.outfile
          => Len(out) = 1 /\ DumpOfBuffer(out[1]))

\* growing the full buffer of 256 events failed and the dump of the 256 has
\* been written to standard output
FullBufferDumped ==
  /\ GrowthFailed /\ pc = "done" /\ ~cfg.outfile
  /\ Len(outs) = OutsFirstCap /\ Len(out) = 1 /\ DumpOfBuffer(out[1])
  /\ ev.x = 1000 + OutsFirstCap + 1

(***************************************************************************)
(* Playback (SpecPlay)                                                     *)
(***************************************************************************)
IsPlaybackEntry(e) == e.op \in {"pause", "dot"}

\* What the playback has done so far: its pauses and dots, in order
PlaybackLog == SelectSeq(term, IsPlaybackEntry)

RECURSIVE ExpectedPlayback(_, _)
\* The pauses and dots of a playback that has drawn the first k events of
\* es: before each event but the first the pause of min(delta, 0.5 s) when
\* that is positive, then the dot of the event.
ExpectedPlayback(es, k) ==
  IF k = 0 THEN <<>>
  ELSE ExpectedPlayback(es, k - 1)
         \o (IF k > 1 /\ es[k].t - es[k - 1].t > 0
               THEN <<Pause(IF es[k].t - es[k - 1].t > PlaybackMaxPause
                              THEN PlaybackMaxPause
                              ELSE es[k].t - es[k - 1].t)>>
               ELSE <<>>)
         \o <<Dot(es[k])>>

\* The playback is over
PlaybackOver == cfg.mode = "record" /\ pc \in {"dump", "done", "exited"}

\* The events are drawn in recorded order, each at most once, each but the
\* first after its pause; the only other pauses are the one under way, the
\* one a cancellation cut short and the trailing one.
DrawnInOrder ==
  cfg.mode = "record" =>
    /\ played <= Len(events)
    /\ \E rest \in {<<>>, <<Pause(TrailingPause)>>} \cup
                   (IF played > 0 /\ played < Len(events)
                      THEN {<<Pause(PauseBefore(events, played))>>} ELSE {}) :
         PlaybackLog = ExpectedPlayback(events, played) \o rest

\* A playback of one event or more ends with the cursor shown and the
\* alternate screen left; one of no event has written nothing.
PlaybackEndState ==
  PlaybackOver =>
    IF Len(events) = 0
      THEN /\ PlaybackLog = <<>>
           /\ ~Did("alt_on") /\ ~Did("cur_hide") /\ ~Did("cur_show")
      ELSE /\ Did("alt_on") /\ Did("cur_hide")
           /\ TermState.cursor /\ ~TermState.alt

\* The step draws a dot or calls nanosleep.
DrawsOrPauses == Len(PlaybackLog') > Len(PlaybackLog)

\* C23: a playback of n >= 1 events draws them in recorded order, each at
\* most once, event i > 0 after a pause of min(delta, 0.5 s); once
\* cancellation is signalled no event is drawn and no pause, the trailing
\* one included, is started; it ends with the cursor shown and the
\* alternate screen left; with n = 0 it writes nothing.
C23_PlaybackOrderAndCancellation ==
  /\ []DrawnInOrder
  /\ []PlaybackEndState
  /\ [][got_sig => ~DrawsOrPauses]_vars

\* What does hold: the order, the pauses and the end state, and after a
\* cancellation at most the one dot or pause whose test of got_sig was
\* already made.
PlaybackAfterCancellation ==
  /\ []DrawnInOrder
  /\ []PlaybackEndState
  /\ [][got_sig /\ DrawsOrPauses
          => pc \in {"play_pause", "play_draw", "play_trail"}]_vars
  /\ [][got_sig /\ pc \in {"play", "play_sleep", "play_end"}
          => pc' \in {"play_end", "dump"}]_vars

\* a playback of three events, the second one second after the first and
\* reported at column 0, has ended with its trailing pause
ThreeEventsPlayed ==
  /\ PlaybackOver /\ ~got_sig /\ played = 3
  /\ events[2].t - events[1].t > PlaybackMaxPause
  /\ PlaybackLog = <<Dot(events[1]), Pause(PlaybackMaxPause), Dot(events[2]),
                     Dot(events[3]), Pause(TrailingPause)>>
  /\ events[2].x = 0 /\ Dot(events[2]).at = <<1, 1>>

(***************************************************************************)
(* started_at (SpecJson)                                                   *)
(***************************************************************************)
\* The clock values of the events a JSON document lists: the press a
\* multiclick reports, the history of a capture, the buffer of a recording
DocumentEventTimes ==
  CASE cfg.mode = "click" -> {last.t}
    [] cfg.mode = "record" -> {events[i].t : i \in 1..Len(events)}
    [] OTHER -> {outs[i].ev.t : i \in 1..Len(outs)}

\* C24: started_at of a JSON document is the time the capture started: it
\* is no later than the time of any event the document lists, in stream,
\* click and record sessions.
C24_StartedAtBeforeEvents ==
  \A i \in 1..Len(out) :
    out[i].kind = "json" =>
      \A t \in DocumentEventTimes : out[i].started_at <= t

\* What does hold: started_at of a multiclick document is the time the run
\* started; that of a capture or a recording is the time the loop was left,
\* no earlier than any event.
StartedAtIsDumpTime ==
  \A i \in 1..Len(out) :
    out[i].kind = "json" =>
      IF cfg.mode = "click"
        THEN /\ out[i].started_at = started_at
             /\ \A t \in DocumentEventTimes : out[i].started_at <= t
        ELSE /\ out[i].started_at = now
             /\ \A t \in DocumentEventTimes : out[i].started_at >= t

\* a multiclick document whose press came two ticks after the start
ClickDocumentAfterStart ==
  /\ cfg.mode = "click" /\ Len(out) = 1 /\ out[1].kind = "json"
  /\ last.t = out[1].started_at + 2


(***************************************************************************)
(* C25: the scratch buffers of the decoder stay inside their arrays        *)
(***************************************************************************)

\* The accumulation loop reads one more byte of a report body.
BodyRead == rpc = "body" /\ queue # <<>> /\ queue' = Tail(queue)

\* The indexes of the 128-byte arrays buf and tmp.
ScratchIndexes == 0..(SGR_BUF - 1)

\* buf after the store buf[len++] = c of the byte being read.
BodyAfterStore == Append(buf, Head(queue))

\* C25: the scratch buffer of the decoder never exceeds its cap.  In every
\* state the accumulated length is at most SGR_BUF - 1 = 127; every byte the
\* accumulation loop stores lands at an index inside buf and leaves the
\* length at most 127; and when the loop stops, on a terminator or at the
\* cap, every element of buf and of tmp that parse_sgr touches lies inside
\* the 128-byte arrays.
C25_ScratchBufferBounded == [](Len(buf) <= SGR_BUF - 1) /\ [][BodyRead => (Len(buf) \in ScratchIndexes /\ Len(BodyAfterStore) <= SGR_BUF - 1 /\ (BodyStops(BodyAfterStore, Head(queue)) => (parse_sgr_touches(BodyAfterStore).buf \subseteq ScratchIndexes /\ parse_sgr_touches(BodyAfterStore).tmp \subseteq ScratchIndexes)))]_vars

\* A body of 127 bytes without a terminator has been read whole from the
\* start of a read_sgr_event_timeout call and the loop has stopped on it.
BodyAtCapHandled ==
  /\ lib = "decode" /\ cur # 0 /\ CurFrag.kind = "over"
  /\ fin /\ arrPc = "select"
  /\ rpc # "body" /\ buf = <<>>

=============================================================================
